---- MODULE Spec2Model ----
\* Quadric surfaces: ray intersection engine of code/App/Source/Quadric.
\*
\* Arithmetic.  A float is modelled as an extended rational [n, d]:
\*   d > 0          the finite value n/d, in lowest terms;
\*   d = 0, n =  1  +infinity;   d = 0, n = -1  -infinity;   d = 0, n = 0  NaN.
\* Finite arithmetic is exact (no rounding); division by zero, 0/0, inf-inf,
\* 0*inf and every comparison with NaN follow IEEE-754.  Zero is +0.0.
\* The input rays are those whose discriminant has a rational square root, so
\* that std::sqrt is exact as well.
EXTENDS Integers, Sequences, FiniteSets, TLC

VARIABLES surface, rayOrigin, rayDirection, tMinArg, tMaxArg,
          pc, result, boxResult, containsResult, typeName

\* QuadricManager: its members, the function-local static of the non-const
\* GetQuadric, the last call made on the manager and the number of calls
VARIABLES m_Quadrics, m_NumQuadrics, m_SelectedQuadric, m_ShowEditor,
          emptyStatic, lastCall, calls

\* Main.cpp: the statics of the scene editor and of the accumulation, the
\* frame index passed to the latest path-trace pass (uniform uFrame), whether
\* the editor changed the scene in the latest frame, the frames run; the
\* locals srcAccum and dstAccum of the latest frame and the buffer index
\* passed to RenderDisplay
VARIABLES s_Quadrics, s_NumQuadrics, s_SelectedQuadric, s_ShowQuadricEditor,
          s_FrameIndex, s_ResetAccumulation, uFrame, sceneEdited, frames,
          srcAccum, dstAccum, displayed

\* SceneManager: the object (a record of its members), the OBJ file on disk,
\* the position of a running LoadOBJ, the last call that returned and the
\* number of calls made
VARIABLES scene, objFile, mtlFile, loading, sceneCall, sceneCalls

\* OpenGL: the number of triangle rows of the textures UploadToGPU created
\* last (0: none exist) and what the latest BindTextures bound
VARIABLES textureRows, uniforms

rayVars == <<surface, rayOrigin, rayDirection, tMinArg, tMaxArg,
             pc, result, boxResult, containsResult, typeName>>
mgrVars == <<m_Quadrics, m_NumQuadrics, m_SelectedQuadric, m_ShowEditor,
             emptyStatic, lastCall, calls>>
mainVars == <<s_Quadrics, s_NumQuadrics, s_SelectedQuadric, s_ShowQuadricEditor,
              s_FrameIndex, s_ResetAccumulation, uFrame, sceneEdited, frames,
              srcAccum, dstAccum, displayed>>
sceneVars == <<scene, objFile, mtlFile, loading, sceneCall, sceneCalls,
               textureRows, uniforms>>
vars == <<rayVars, mgrVars, mainVars, sceneVars>>

\* ---------------------------------------------------------------------------
\* Bounds of the model
\* ---------------------------------------------------------------------------
\* ray origins are the integer points of [-MaxXY, MaxXY]^2 x [-MaxZ, MaxZ]
MaxXY == 1
MaxZ == 3
\* largest sphere radius built by CreateSphere
MaxRadius == 2
\* number of calls made on one QuadricManager
MaxCalls == 3
\* number of iterations of the render loop
MaxFrames == 3
\* number of calls made on one SceneManager
MaxSceneCalls == 4
\* largest number of vertex references of a face line
MaxFaceRefs == 4
\* largest number of lines of an MTL file
MaxMtlLines == 3

\* ---------------------------------------------------------------------------
\* float arithmetic
\* ---------------------------------------------------------------------------
AbsI(i) == IF i < 0 THEN -i ELSE i
SgnI(i) == IF i > 0 THEN 1 ELSE IF i < 0 THEN -1 ELSE 0

RECURSIVE Gcd(_, _)
Gcd(a, b) == IF b = 0 THEN a ELSE Gcd(b, a % b)

\* the finite value n/d (d # 0) in lowest terms
Q(n, d) ==
  LET g == Gcd(AbsI(n), AbsI(d))
  IN  [n |-> (SgnI(d) * n) \div g, d |-> AbsI(d) \div g]

F(i) == [n |-> i, d |-> 1]
PInf == [n |-> 1, d |-> 0]
NInf == [n |-> -1, d |-> 0]
NaN == [n |-> 0, d |-> 0]

IsNaN(x) == x.d = 0 /\ x.n = 0
IsInf(x) == x.d = 0 /\ x.n # 0
IsFin(x) == x.d > 0
Sgn(x) == SgnI(x.n)
InfOf(s) == IF s < 0 THEN NInf ELSE PInf

FNeg(x) == [n |-> -x.n, d |-> x.d]
FAbs(x) == [n |-> AbsI(x.n), d |-> x.d]

FAdd(x, y) ==
  IF IsNaN(x) \/ IsNaN(y) THEN NaN
  ELSE IF x.d = 0 THEN (IF y.d = 0 /\ y.n # x.n THEN NaN ELSE x)
  ELSE IF y.d = 0 THEN y
  ELSE LET g == Gcd(x.d, y.d)
       IN  Q(x.n * (y.d \div g) + y.n * (x.d \div g), (x.d \div g) * y.d)

FSub(x, y) == FAdd(x, FNeg(y))

FMul(x, y) ==
  IF IsNaN(x) \/ IsNaN(y) THEN NaN
  ELSE IF x.d = 0 \/ y.d = 0
       THEN (IF Sgn(x) = 0 \/ Sgn(y) = 0 THEN NaN ELSE InfOf(Sgn(x) * Sgn(y)))
  ELSE IF x.n = 0 \/ y.n = 0 THEN F(0)
  ELSE LET g1 == Gcd(AbsI(x.n), y.d)
           g2 == Gcd(AbsI(y.n), x.d)
       IN  Q((x.n \div g1) * (y.n \div g2), (x.d \div g2) * (y.d \div g1))

FDiv(x, y) ==
  IF IsNaN(x) \/ IsNaN(y) THEN NaN
  ELSE IF y.d = 0 THEN (IF x.d = 0 THEN NaN ELSE F(0))
  ELSE IF x.d = 0 THEN InfOf(Sgn(x) * (IF Sgn(y) < 0 THEN -1 ELSE 1))
  ELSE IF y.n = 0 THEN (IF x.n = 0 THEN NaN ELSE InfOf(Sgn(x)))
  ELSE FMul(x, [n |-> SgnI(y.n) * y.d, d |-> AbsI(y.n)])

\* x < y on two finite values: integer parts first, then the fractions
FinLt(x, y) ==
  LET fx == x.n \div x.d
      fy == y.n \div y.d
  IN  IF fx # fy THEN fx < fy
      ELSE (x.n % x.d) * y.d < (y.n % y.d) * x.d

FLt(x, y) ==
  IF IsNaN(x) \/ IsNaN(y) THEN FALSE
  ELSE IF x.d = 0 \/ y.d = 0
       THEN (IF x.d = 0 /\ y.d = 0 THEN x.n < y.n
             ELSE IF x.d = 0 THEN x.n < 0
             ELSE y.n > 0)
  ELSE FinLt(x, y)

FEq(x, y) == ~IsNaN(x) /\ ~IsNaN(y) /\ x = y
FGt(x, y) == FLt(y, x)
FLe(x, y) == FLt(x, y) \/ FEq(x, y)
FGe(x, y) == FLe(y, x)

\* std::min(a, b) is (b < a) ? b : a and std::max(a, b) is (a < b) ? b : a
FMin(a, b) == IF FLt(b, a) THEN b ELSE a
FMax(a, b) == IF FLt(a, b) THEN b ELSE a

RECURSIVE SqrtFrom(_, _)
SqrtFrom(n, r) == IF (r + 1) * (r + 1) > n THEN r ELSE SqrtFrom(n, r + 1)
ISqrt(n) == SqrtFrom(n, 0)

\* a finite x >= 0 whose square root is rational
IsSquare(x) == IsFin(x) /\ x.n >= 0 /\ ISqrt(x.n) * ISqrt(x.n) = x.n
                        /\ ISqrt(x.d) * ISqrt(x.d) = x.d

\* std::sqrt: NaN below zero, exact on rational squares
FSqrt(x) ==
  IF IsNaN(x) \/ Sgn(x) < 0 THEN NaN
  ELSE IF x.d = 0 THEN PInf
  ELSE [n |-> ISqrt(x.n), d |-> ISqrt(x.d)]

\* left-to-right sum of a sequence of floats
RECURSIVE SumUpTo(_, _)
SumUpTo(s, k) == IF k = 1 THEN s[1] ELSE FAdd(SumUpTo(s, k - 1), s[k])
FSum(s) == SumUpTo(s, Len(s))

\* left-to-right product of a sequence of floats
RECURSIVE ProdUpTo(_, _)
ProdUpTo(s, k) == IF k = 1 THEN s[1] ELSE FMul(ProdUpTo(s, k - 1), s[k])
FProd(s) == ProdUpTo(s, Len(s))

\* ---------------------------------------------------------------------------
\* glm::vec3
\* ---------------------------------------------------------------------------
Vec(x, y, z) == <<F(x), F(y), F(z)>>
VAdd(u, v) == <<FAdd(u[1], v[1]), FAdd(u[2], v[2]), FAdd(u[3], v[3])>>
VScale(t, v) == <<FMul(t, v[1]), FMul(t, v[2]), FMul(t, v[3])>>
VNeg(v) == <<FNeg(v[1]), FNeg(v[2]), FNeg(v[3])>>
Dot(u, v) == FSum(<<FMul(u[1], v[1]), FMul(u[2], v[2]), FMul(u[3], v[3])>>)
NaNVec == <<NaN, NaN, NaN>>

\* glm::normalize(v) is v * inversesqrt(dot(v, v)).  The value is kept as the
\* pair [v, s] standing for v / sqrt(s), s > 0 finite; a zero or NaN dot
\* product gives 0 * inf = NaN in every component.
Normalize(v) ==
  LET s == Dot(v, v)
  IN  IF IsFin(s) /\ s.n > 0 THEN [v |-> v, s |-> s]
      ELSE IF IsInf(s)
           THEN [v |-> <<FMul(v[1], F(0)), FMul(v[2], F(0)), FMul(v[3], F(0))>>,
                 s |-> F(1)]
      ELSE [v |-> NaNVec, s |-> F(1)]

\* ---------------------------------------------------------------------------
\* BoundingBox
\* ---------------------------------------------------------------------------
\* struct BoundingBox: Min and Max default to (-10,-10,-10) and (10,10,10)
BoundingBox(min, max) == [Min |-> min, Max |-> max]
DefaultBoundingBox == BoundingBox(Vec(-10, -10, -10), Vec(10, 10, 10))

\* BoundingBox::Contains
Contains(bbox, point) ==
  /\ FGe(point[1], bbox.Min[1]) /\ FLe(point[1], bbox.Max[1])
  /\ FGe(point[2], bbox.Min[2]) /\ FLe(point[2], bbox.Max[2])
  /\ FGe(point[3], bbox.Min[3]) /\ FLe(point[3], bbox.Max[3])

\* the two slab parameters t1, t2 of one axis
SlabT1(bbox, origin, direction, k) ==
  FDiv(FSub(bbox.Min[k], origin[k]), direction[k])
SlabT2(bbox, origin, direction, k) ==
  FDiv(FSub(bbox.Max[k], origin[k]), direction[k])

\* BoundingBox::Intersect returning tMax >= tMin alone
BoxIntersect_NoBehindTest(bbox, origin, direction) ==
  LET x1 == SlabT1(bbox, origin, direction, 1)
      x2 == SlabT2(bbox, origin, direction, 1)
      y1 == SlabT1(bbox, origin, direction, 2)
      y2 == SlabT2(bbox, origin, direction, 2)
      z1 == SlabT1(bbox, origin, direction, 3)
      z2 == SlabT2(bbox, origin, direction, 3)
      tMin == FMax(FMax(FMin(x1, x2), FMin(y1, y2)), FMin(z1, z2))
      tMax == FMin(FMin(FMax(x1, x2), FMax(y1, y2)), FMax(z1, z2))
  IN  [hit |-> FGe(tMax, tMin), tMin |-> tMin, tMax |-> tMax]

\* BoundingBox::Intersect: the returned flag and the two out-parameters
BoxIntersect(bbox, origin, direction) ==
  LET x1 == SlabT1(bbox, origin, direction, 1)
      x2 == SlabT2(bbox, origin, direction, 1)
      tMinX == FMin(x1, x2)
      tMaxX == FMax(x1, x2)
      y1 == SlabT1(bbox, origin, direction, 2)
      y2 == SlabT2(bbox, origin, direction, 2)
      tMinY == FMax(tMinX, FMin(y1, y2))
      tMaxY == FMin(tMaxX, FMax(y1, y2))
      z1 == SlabT1(bbox, origin, direction, 3)
      z2 == SlabT2(bbox, origin, direction, 3)
      tMin == FMax(tMinY, FMin(z1, z2))
      tMax == FMin(tMaxY, FMax(z1, z2))
  IN  [hit |-> FGe(tMax, tMin) /\ FGe(tMax, F(0)), tMin |-> tMin, tMax |-> tMax]

\* ---------------------------------------------------------------------------
\* QuadricSurface
\* ---------------------------------------------------------------------------
\* struct QuadricCoefficients, every field defaulting to 0
ZeroCoefficients ==
  [A |-> F(0), B |-> F(0), C |-> F(0), D |-> F(0), E |-> F(0),
   F |-> F(0), G |-> F(0), H |-> F(0), I |-> F(0), J |-> F(0)]

\* QuadricSurface(coeffs): no bounding box
SurfaceOf(coeffs) ==
  [coeffs |-> coeffs, bbox |-> DefaultBoundingBox, useBox |-> FALSE]
\* QuadricSurface(coeffs, bbox): bounding box enabled
SurfaceWithBox(coeffs, bbox) ==
  [coeffs |-> coeffs, bbox |-> bbox, useBox |-> TRUE]

\* the threshold 1e-6f of SolveQuadratic
Epsilon == Q(1, 1000000)

\* the intermediate q of SolveQuadratic, for |A| >= 1e-6 and a discriminant
\* that is not negative
QuadraticQ(A, B, C) ==
  LET discriminant == FSub(FMul(B, B), FProd(<<F(4), A, C>>))
      sqrtDiscriminant == FSqrt(discriminant)
  IN  IF FLt(B, F(0))
      THEN FDiv(FSub(FNeg(B), sqrtDiscriminant), F(2))
      ELSE FDiv(FAdd(FNeg(B), sqrtDiscriminant), F(2))

\* a plausible slip: the second root is taken as q / C instead of C / q
SolveQuadratic_SecondRootInverted(A, B, C) ==
  IF FLt(FAbs(A), Epsilon)
  THEN IF FLt(FAbs(B), Epsilon)
       THEN [ok |-> FALSE, t0 |-> NaN, t1 |-> NaN]
       ELSE [ok |-> TRUE, t0 |-> FDiv(FNeg(C), B), t1 |-> FDiv(FNeg(C), B)]
  ELSE LET discriminant == FSub(FMul(B, B), FProd(<<F(4), A, C>>))
           sqrtDiscriminant == FSqrt(discriminant)
           q == IF FLt(B, F(0))
                THEN FDiv(FSub(FNeg(B), sqrtDiscriminant), F(2))
                ELSE FDiv(FAdd(FNeg(B), sqrtDiscriminant), F(2))
           r0 == FDiv(q, A)
           r1 == FDiv(q, C)
       IN  IF FLt(discriminant, F(0))
           THEN [ok |-> FALSE, t0 |-> NaN, t1 |-> NaN]
           ELSE IF FGt(r0, r1)
                THEN [ok |-> TRUE, t0 |-> r1, t1 |-> r0]
                ELSE [ok |-> TRUE, t0 |-> r0, t1 |-> r1]

\* a plausible slip: the linear case divides by B without the test |B| < 1e-6
SolveQuadratic_NoLinearGuard(A, B, C) ==
  IF FLt(FAbs(A), Epsilon)
  THEN [ok |-> TRUE, t0 |-> FDiv(FNeg(C), B), t1 |-> FDiv(FNeg(C), B)]
  ELSE LET discriminant == FSub(FMul(B, B), FProd(<<F(4), A, C>>))
           sqrtDiscriminant == FSqrt(discriminant)
           q == IF FLt(B, F(0))
                THEN FDiv(FSub(FNeg(B), sqrtDiscriminant), F(2))
                ELSE FDiv(FAdd(FNeg(B), sqrtDiscriminant), F(2))
           r0 == FDiv(q, A)
           r1 == FDiv(C, q)
       IN  IF FLt(discriminant, F(0))
           THEN [ok |-> FALSE, t0 |-> NaN, t1 |-> NaN]
           ELSE IF FGt(r0, r1)
                THEN [ok |-> TRUE, t0 |-> r1, t1 |-> r0]
                ELSE [ok |-> TRUE, t0 |-> r0, t1 |-> r1]

\* QuadricSurface::SolveQuadratic: the returned flag and t0, t1
SolveQuadratic(A, B, C) ==
  IF FLt(FAbs(A), Epsilon)
  THEN IF FLt(FAbs(B), Epsilon)
       THEN [ok |-> FALSE, t0 |-> NaN, t1 |-> NaN]
       ELSE [ok |-> TRUE, t0 |-> FDiv(FNeg(C), B), t1 |-> FDiv(FNeg(C), B)]
  ELSE LET discriminant == FSub(FMul(B, B), FProd(<<F(4), A, C>>))
           sqrtDiscriminant == FSqrt(discriminant)
           q == IF FLt(B, F(0))
                THEN FDiv(FSub(FNeg(B), sqrtDiscriminant), F(2))
                ELSE FDiv(FAdd(FNeg(B), sqrtDiscriminant), F(2))
           r0 == FDiv(q, A)
           r1 == FDiv(C, q)
       IN  IF FLt(discriminant, F(0))
           THEN [ok |-> FALSE, t0 |-> NaN, t1 |-> NaN]
           ELSE IF FGt(r0, r1)
                THEN [ok |-> TRUE, t0 |-> r1, t1 |-> r0]
                ELSE [ok |-> TRUE, t0 |-> r0, t1 |-> r1]

\* coefficient of t^2 of the quadric along the ray O + t d
QuadA(co, O, d) ==
  FSum(<<FProd(<<co.A, d[1], d[1]>>), FProd(<<co.B, d[2], d[2]>>),
         FProd(<<co.C, d[3], d[3]>>), FProd(<<co.D, d[1], d[2]>>),
         FProd(<<co.E, d[1], d[3]>>), FProd(<<co.F, d[2], d[3]>>)>>)

\* a plausible slip: each cross term keeps only one of its two products
QuadB_HalfCrossTerms(co, O, d) ==
  FSum(<<FProd(<<F(2), co.A, O[1], d[1]>>), FProd(<<F(2), co.B, O[2], d[2]>>),
         FProd(<<F(2), co.C, O[3], d[3]>>),
         FMul(co.D, FMul(O[1], d[2])),
         FMul(co.E, FMul(O[1], d[3])),
         FMul(co.F, FMul(O[2], d[3])),
         FMul(co.G, d[1]), FMul(co.H, d[2]), FMul(co.I, d[3])>>)

\* coefficient of t
QuadB(co, O, d) ==
  FSum(<<FProd(<<F(2), co.A, O[1], d[1]>>), FProd(<<F(2), co.B, O[2], d[2]>>),
         FProd(<<F(2), co.C, O[3], d[3]>>),
         FMul(co.D, FAdd(FMul(O[1], d[2]), FMul(O[2], d[1]))),
         FMul(co.E, FAdd(FMul(O[1], d[3]), FMul(O[3], d[1]))),
         FMul(co.F, FAdd(FMul(O[2], d[3]), FMul(O[3], d[2]))),
         FMul(co.G, d[1]), FMul(co.H, d[2]), FMul(co.I, d[3])>>)

\* constant term
QuadC(co, O, d) ==
  FSum(<<FProd(<<co.A, O[1], O[1]>>), FProd(<<co.B, O[2], O[2]>>),
         FProd(<<co.C, O[3], O[3]>>), FProd(<<co.D, O[1], O[2]>>),
         FProd(<<co.E, O[1], O[3]>>), FProd(<<co.F, O[2], O[3]>>),
         FMul(co.G, O[1]), FMul(co.H, O[2]), FMul(co.I, O[3]), co.J>>)

\* QuadricSurface::Evaluate
Evaluate(co, p) ==
  FSum(<<FProd(<<co.A, p[1], p[1]>>), FProd(<<co.B, p[2], p[2]>>),
         FProd(<<co.C, p[3], p[3]>>), FProd(<<co.D, p[1], p[2]>>),
         FProd(<<co.E, p[1], p[3]>>), FProd(<<co.F, p[2], p[3]>>),
         FMul(co.G, p[1]), FMul(co.H, p[2]), FMul(co.I, p[3]), co.J>>)

\* QuadricSurface::CalculateNormal: the gradient, not normalized
CalculateNormal(co, p) ==
  << FSum(<<FProd(<<F(2), co.A, p[1]>>), FMul(co.D, p[2]), FMul(co.E, p[3]), co.G>>),
     FSum(<<FProd(<<F(2), co.B, p[2]>>), FMul(co.D, p[1]), FMul(co.F, p[3]), co.H>>),
     FSum(<<FProd(<<F(2), co.C, p[3]>>), FMul(co.E, p[1]), FMul(co.F, p[2]), co.I>> ) >>

\* struct IntersectionResult as default-constructed, with Hit = false
NoHit ==
  [Hit |-> FALSE, Distance |-> F(0), Point |-> Vec(0, 0, 0),
   Normal |-> [v |-> Vec(0, 1, 0), s |-> F(1)]]

InRange(t, tMin, tMax) == FGe(t, tMin) /\ FLe(t, tMax)

\* a plausible slip: the lower end of the search range is widened to the
\* box overlap instead of narrowed
NarrowTMin_Widened(tMin, boxTMin) == FMin(tMin, boxTMin)

\* tMin = std::max(tMin, boxTMin) and tMax = std::min(tMax, boxTMax)
NarrowTMin(tMin, boxTMin) == FMax(tMin, boxTMin)
NarrowTMax(tMax, boxTMax) == FMin(tMax, boxTMax)

\* a plausible slip: the retried root is accepted without the containment test
VerifyInBox_RetryUnchecked(surf, O, d, t, t0, t1, tMin, tMax) ==
  IF surf.useBox /\ ~Contains(surf.bbox, VAdd(O, VScale(t, d)))
  THEN IF FEq(t, t0) /\ InRange(t1, tMin, tMax)
       THEN [ok |-> TRUE, t |-> t1]
       ELSE [ok |-> FALSE, t |-> t]
  ELSE [ok |-> TRUE, t |-> t]

\* the bounding-box verification of Intersect: the parameter that is kept,
\* or a miss (ok = FALSE)
VerifyInBox(surf, O, d, t, t0, t1, tMin, tMax) ==
  IF surf.useBox /\ ~Contains(surf.bbox, VAdd(O, VScale(t, d)))
  THEN IF FEq(t, t0) /\ InRange(t1, tMin, tMax)
       THEN [ok |-> Contains(surf.bbox, VAdd(O, VScale(t1, d))), t |-> t1]
       ELSE [ok |-> FALSE, t |-> t]
  ELSE [ok |-> TRUE, t |-> t]

\* the tail of Intersect: gradient, orientation towards the ray, normalization
HitAt(surf, O, d, t) ==
  LET hitPoint == VAdd(O, VScale(t, d))
      gradient == CalculateNormal(surf.coeffs, hitPoint)
      normal == IF FGt(Dot(gradient, d), F(0)) THEN VNeg(gradient) ELSE gradient
  IN  [Hit |-> TRUE, Distance |-> t, Point |-> hitPoint,
       Normal |-> Normalize(normal)]

\* QuadricSurface::Intersect
Intersect(surf, O, d, tMinIn, tMaxIn) ==
  LET box == BoxIntersect(surf.bbox, O, d)
      tMin == IF surf.useBox THEN NarrowTMin(tMinIn, box.tMin) ELSE tMinIn
      tMax == IF surf.useBox THEN NarrowTMax(tMaxIn, box.tMax) ELSE tMaxIn
      sol == SolveQuadratic(QuadA(surf.coeffs, O, d), QuadB(surf.coeffs, O, d),
                            QuadC(surf.coeffs, O, d))
      t == IF InRange(sol.t0, tMin, tMax) THEN sol.t0 ELSE sol.t1
      kept == VerifyInBox(surf, O, d, t, sol.t0, sol.t1, tMin, tMax)
  IN  IF surf.useBox /\ ~box.hit THEN NoHit
      ELSE IF ~sol.ok THEN NoHit
      ELSE IF ~InRange(sol.t0, tMin, tMax) /\ ~InRange(sol.t1, tMin, tMax) THEN NoHit
      ELSE IF ~kept.ok THEN NoHit
      ELSE HitAt(surf, O, d, kept.t)

\* ---------------------------------------------------------------------------
\* factory methods
\* ---------------------------------------------------------------------------
\* a plausible slip: J = radius * radius, the sign of the constant term lost
CreateSphere_PositiveJ(radius) ==
  SurfaceOf([ZeroCoefficients EXCEPT !.A = F(1), !.B = F(1), !.C = F(1),
                                     !.J = FMul(radius, radius)])

CreateSphere(radius) ==
  SurfaceOf([ZeroCoefficients EXCEPT !.A = F(1), !.B = F(1), !.C = F(1),
                                     !.J = FMul(FNeg(radius), radius)])

CreateCylinder(radius, height) ==
  SurfaceWithBox(
    [ZeroCoefficients EXCEPT !.A = F(1), !.B = F(1),
                             !.J = FMul(FNeg(radius), radius)],
    BoundingBox(<<FSub(FNeg(radius), F(1)), FSub(FNeg(radius), F(1)),
                  FDiv(FNeg(height), F(2))>>,
                <<FAdd(radius, F(1)), FAdd(radius, F(1)), FDiv(height, F(2))>>))

\* CreateCone(angle, height); tanAngle is the value of std::tan(angle)
CreateCone(tanAngle, height) ==
  LET k == FMul(tanAngle, tanAngle)
      radius == FMul(height, tanAngle)
  IN  SurfaceWithBox(
        [ZeroCoefficients EXCEPT !.A = F(1), !.B = F(1), !.C = FNeg(k)],
        BoundingBox(<<FSub(FNeg(radius), F(1)), FSub(FNeg(radius), F(1)), F(0)>>,
                    <<FAdd(radius, F(1)), FAdd(radius, F(1)), height>>))

\* GetQuadricTypeName with the cone test moved in front of the test of the
\* three second-degree coefficients
GetQuadricTypeName_ConeFirst(co) ==
  LET hasA == FGt(FAbs(co.A), Epsilon)
      hasB == FGt(FAbs(co.B), Epsilon)
      hasC == FGt(FAbs(co.C), Epsilon)
      hasCross == \/ FGt(FAbs(co.D), Epsilon) \/ FGt(FAbs(co.E), Epsilon)
                  \/ FGt(FAbs(co.F), Epsilon)
      hasLinear == \/ FGt(FAbs(co.G), Epsilon) \/ FGt(FAbs(co.H), Epsilon)
                   \/ FGt(FAbs(co.I), Epsilon)
  IN  IF hasCross THEN "General Quadric"
      ELSE IF hasA /\ hasB /\ hasC /\ FLt(FMul(co.C, co.A), F(0))
      THEN "Cone"
      ELSE IF hasA /\ hasB /\ hasC
      THEN IF FGt(co.A, F(0)) /\ FGt(co.B, F(0)) /\ FGt(co.C, F(0))
           THEN "Ellipsoid"
           ELSE IF FGt(co.A, F(0)) /\ FGt(co.B, F(0)) /\ FLt(co.C, F(0))
           THEN "Hyperboloid"
           ELSE "General Quadric"
      ELSE IF hasA /\ hasB /\ ~hasC
      THEN IF hasLinear THEN "Paraboloid" ELSE "Cylinder"
      ELSE IF hasLinear /\ ~hasA /\ ~hasB /\ ~hasC THEN "Plane"
      ELSE "Quadric Surface"

\* GetQuadricTypeName: the heuristic label of a coefficient set
GetQuadricTypeName(co) ==
  LET hasA == FGt(FAbs(co.A), Epsilon)
      hasB == FGt(FAbs(co.B), Epsilon)
      hasC == FGt(FAbs(co.C), Epsilon)
      hasCross == \/ FGt(FAbs(co.D), Epsilon) \/ FGt(FAbs(co.E), Epsilon)
                  \/ FGt(FAbs(co.F), Epsilon)
      hasLinear == \/ FGt(FAbs(co.G), Epsilon) \/ FGt(FAbs(co.H), Epsilon)
                   \/ FGt(FAbs(co.I), Epsilon)
  IN  IF hasCross THEN "General Quadric"
      ELSE IF hasA /\ hasB /\ hasC
      THEN IF FGt(co.A, F(0)) /\ FGt(co.B, F(0)) /\ FGt(co.C, F(0))
           THEN "Ellipsoid"
           ELSE IF FGt(co.A, F(0)) /\ FGt(co.B, F(0)) /\ FLt(co.C, F(0))
           THEN "Hyperboloid"
           ELSE "General Quadric"
      ELSE IF hasA /\ hasB /\ ~hasC
      THEN IF hasLinear THEN "Paraboloid" ELSE "Cylinder"
      ELSE IF hasA /\ hasB /\ hasC /\ FLt(FMul(co.C, co.A), F(0))
      THEN "Cone"
      ELSE IF hasLinear /\ ~hasA /\ ~hasB /\ ~hasC THEN "Plane"
      ELSE "Quadric Surface"

\* ---------------------------------------------------------------------------
\* inputs: surfaces, rays and ranges
\* ---------------------------------------------------------------------------
SphereCoefficients(j) ==
  [ZeroCoefficients EXCEPT !.A = F(1), !.B = F(1), !.C = F(1), !.J = F(j)]

\* x^2 + y^2 + z^2 = 4 clipped to the half space z <= 0
LowerHalfSphere ==
  SurfaceWithBox(SphereCoefficients(-4),
                 BoundingBox(Vec(-3, -3, -3), Vec(3, 3, 0)))

\* x^2 + y^2 + z^2 = 2 clipped to the slab -1 <= x <= 1, -1 <= y <= 1
SlabSphere ==
  SurfaceWithBox(SphereCoefficients(-2),
                 BoundingBox(Vec(-1, -1, -3), Vec(1, 1, 3)))

\* a box whose Min.x exceeds its Max.x
InvertedBoxSphere ==
  SurfaceWithBox(SphereCoefficients(-4),
                 BoundingBox(Vec(1, -3, -3), Vec(-1, 3, 3)))

\* 2^-20 x^2 + x - 512 = 0: a second-degree coefficient below the 1e-6
\* threshold of SolveQuadratic
FlatCoefficient == Q(1, 1048576)
FlatQuadric ==
  SurfaceOf([ZeroCoefficients EXCEPT !.A = FlatCoefficient, !.G = F(1),
                                     !.J = F(-512)])

Surfaces ==
  {CreateSphere(F(r)) : r \in 1..MaxRadius}
    \cup {CreateCylinder(F(1), F(2)), CreateCone(F(1), F(2)),
          LowerHalfSphere, SlabSphere, InvertedBoxSphere}

Origins ==
  {Vec(x, y, z) : x \in -MaxXY..MaxXY, y \in -MaxXY..MaxXY, z \in -MaxZ..MaxZ}
Directions == {Vec(x, y, z) : x \in -1..1, y \in -1..1, z \in -1..1}

\* the default range of Intersect, a caller-supplied one, and one without an
\* upper limit (tMax = INFINITY)
DefaultTMin == Q(1, 1000)
DefaultTMax == F(1000)
Ranges == {<<DefaultTMin, DefaultTMax>>, <<F(0), F(4)>>, <<DefaultTMin, PInf>>}

\* std::sqrt of the discriminant is exact for this ray (or is not taken)
Discriminant(co, O, d) ==
  FSub(FMul(QuadB(co, O, d), QuadB(co, O, d)),
       FProd(<<F(4), QuadA(co, O, d), QuadC(co, O, d)>>))
ExactRay(co, O, d) ==
  \/ FLt(FAbs(QuadA(co, O, d)), Epsilon)
  \/ FLt(Discriminant(co, O, d), F(0))
  \/ IsSquare(Discriminant(co, O, d))

\* quadrics with all ten coefficients different from zero
GeneralSurfaces ==
  {SurfaceOf([A |-> F(1), B |-> F(2), C |-> F(3), D |-> F(1), E |-> F(-1),
              F |-> F(2), G |-> F(1), H |-> F(-2), I |-> F(3), J |-> F(-4)]),
   SurfaceOf([A |-> F(1), B |-> F(-1), C |-> F(2), D |-> F(3), E |-> F(1),
              F |-> F(-2), G |-> F(-1), H |-> F(2), I |-> F(1), J |-> F(-3)])}
GeneralRays ==
  {r \in GeneralSurfaces \X Origins \X Directions :
     ExactRay(r[1].coeffs, r[2], r[3])}

Rays ==
  {r \in Surfaces \X Origins \X Directions : ExactRay(r[1].coeffs, r[2], r[3])}
    \cup {r \in {FlatQuadric} \X Origins \X Directions : r[2][1] = F(0)}

\* ---------------------------------------------------------------------------
\* QuadricManager: the scene of up to MAX_QUADRICS entries
\* ---------------------------------------------------------------------------
MAX_QUADRICS == 8

\* struct Quadric; c is the tuple of the ten coefficients A..J
MakeQuadric(c, bboxMin, bboxMax, materialIndex) ==
  [A |-> c[1], B |-> c[2], C |-> c[3], D |-> c[4], E |-> c[5], F |-> c[6],
   G |-> c[7], H |-> c[8], I |-> c[9], J |-> c[10],
   bboxMin |-> bboxMin, bboxMax |-> bboxMax, materialIndex |-> materialIndex]

\* Quadric{}: every coefficient 0, both box corners (0,0,0), material 0
ZeroQuadric ==
  MakeQuadric(<<F(0), F(0), F(0), F(0), F(0), F(0), F(0), F(0), F(0), F(0)>>,
              Vec(0, 0, 0), Vec(0, 0, 0), 0)

\* the two entries written by InitializeDefaults
DefaultSphere ==
  MakeQuadric(<<F(1), F(1), F(1), F(0), F(0), F(0), F(-4), F(4), F(0), Q(191, 25)>>,
              <<Q(7, 5), Q(-13, 5), Q(-3, 5)>>, <<Q(13, 5), Q(-7, 5), Q(3, 5)>>, 4)
DefaultEllipsoid ==
  MakeQuadric(<<Q(16, 25), Q(1, 4), F(1), F(0), F(0), F(0), Q(64, 25), F(1), F(4), Q(37, 5)>>,
              <<Q(-5, 2), Q(-14, 5), Q(-12, 5)>>, <<Q(-3, 2), Q(-6, 5), Q(-8, 5)>>, 8)

\* the presets "Sphere (r=1)" and "Cone" of the editor
PresetSphere ==
  MakeQuadric(<<F(1), F(1), F(1), F(0), F(0), F(0), F(0), F(0), F(0), F(-1)>>,
              Vec(-1, -1, -1), Vec(1, 1, 1), 6)
PresetCone ==
  MakeQuadric(<<F(1), F(1), F(-1), F(0), F(0), F(0), F(0), F(0), F(0), F(0)>>,
              Vec(-2, -2, -3), Vec(2, 2, 3), 3)

\* glm::clamp(x, minVal, maxVal) = min(max(x, minVal), maxVal) on int
ClampInt(x, minVal, maxVal) ==
  LET m == IF x < minVal THEN minVal ELSE x
  IN  IF maxVal < m THEN maxVal ELSE m

\* m_SelectedQuadric = glm::clamp(m_SelectedQuadric, 0, MAX_QUADRICS - 1)
ClampSelected(v) == ClampInt(v, 0, MAX_QUADRICS - 1)

\* a plausible slip: the active count is extended from the typed value,
\* before it is clamped
SelectedCount_Unclamped(v, numQuadrics) ==
  IF v >= numQuadrics THEN v + 1 ELSE numQuadrics

\* the active count after the index field delivered v:
\* if (m_SelectedQuadric >= m_NumQuadrics) m_NumQuadrics = m_SelectedQuadric + 1
SelectedCount(v, numQuadrics) ==
  IF ClampSelected(v) >= numQuadrics THEN ClampSelected(v) + 1 ELSE numQuadrics

\* the object a GetQuadric call refers to: the function-local static `empty`
\* or the entry m_Quadrics[index]
StaticSlot == [static |-> TRUE, index |-> 0]
EntrySlot(index) == [static |-> FALSE, index |-> index]

\* a plausible slip: an out-of-range index is clamped into the array
GetQuadric_Clamped(index) == EntrySlot(ClampInt(index, 0, MAX_QUADRICS - 1))

\* Quadric& QuadricManager::GetQuadric(int index)
GetQuadric(index) ==
  IF index < 0 \/ index >= MAX_QUADRICS THEN StaticSlot ELSE EntrySlot(index)

\* const Quadric& QuadricManager::GetQuadric(int index) const; its static
\* `empty` is a different object, which no caller can write
GetQuadricConst(index) ==
  IF index < 0 \/ index >= MAX_QUADRICS THEN StaticSlot ELSE EntrySlot(index)

\* the widgets of the editor that act on the selected entry q, and what one
\* interaction with each leaves in q
Edits == {"none", "DragFloat A", "DragFloat J", "DragFloat3 Min", "Combo",
          "Sphere (r=1)", "Cone"}
ApplyEdit(q, edit) ==
  CASE edit = "DragFloat A" -> [q EXCEPT !.A = F(2)]
    [] edit = "DragFloat J" -> [q EXCEPT !.J = F(-4)]
    [] edit = "DragFloat3 Min" -> [q EXCEPT !.bboxMin = Vec(-2, -2, -2)]
    [] edit = "Combo" -> [q EXCEPT !.materialIndex = 9]
    [] edit = "Sphere (r=1)" -> PresetSphere
    [] edit = "Cone" -> PresetCone
    [] OTHER -> q

\* the value of `changed` at the end of RenderEditor: a drag or combo widget
\* returns true when it changed its value, a preset button when it was pressed
EditChanged(q, edit) ==
  IF edit \in {"Sphere (r=1)", "Cone"} THEN TRUE ELSE ApplyEdit(q, edit) # q

\* what the index field of the editor delivers in one frame: nothing, or a
\* typed value
SelectorInputs == {-1, 1, 5, MAX_QUADRICS}
SelectorEvents ==
  {[typed |-> FALSE, value |-> 0]}
    \cup {[typed |-> TRUE, value |-> v] : v \in SelectorInputs}

\* indices passed to GetQuadric by a caller, and the entry a caller writes
AccessIndices == {-1, 1, 5, MAX_QUADRICS}
WrittenEntry == PresetSphere

NoCall == [op |-> "none", index |-> 0, returned |-> ZeroQuadric, changed |-> FALSE]

\* QuadricManager::QuadricManager, before any call
ManagerConstructed ==
  /\ m_Quadrics = [i \in 0..(MAX_QUADRICS - 1) |-> ZeroQuadric]
  /\ m_NumQuadrics = 0
  /\ m_SelectedQuadric = 0
  /\ m_ShowEditor = FALSE
  /\ emptyStatic = ZeroQuadric
  /\ lastCall = NoCall
  /\ calls = 0

\* no frame has run: srcAccum and dstAccum are not yet in scope
NoBuffer == -1

\* Main.cpp at the entry of the render loop: the statics as initialized,
\* after InitializeDefaultQuadrics
LoopEntry ==
  /\ s_Quadrics = [i \in 0..(MAX_QUADRICS - 1) |->
                    IF i = 0 THEN DefaultSphere
                    ELSE IF i = 1 THEN DefaultEllipsoid ELSE ZeroQuadric]
  /\ s_NumQuadrics = 2
  /\ s_SelectedQuadric = 0
  /\ s_ShowQuadricEditor = FALSE
  /\ s_FrameIndex = 0
  /\ s_ResetAccumulation = TRUE
  /\ uFrame = 0
  /\ sceneEdited = FALSE
  /\ frames = 0
  /\ srcAccum = NoBuffer /\ dstAccum = NoBuffer /\ displayed = NoBuffer

\* ---------------------------------------------------------------------------
\* SceneManager: OBJ and MTL loading
\* ---------------------------------------------------------------------------
VSub(u, v) == VAdd(u, VNeg(v))
\* glm::cross
Cross(u, v) ==
  << FSub(FMul(u[2], v[3]), FMul(v[2], u[3])),
     FSub(FMul(u[3], v[1]), FMul(v[3], u[1])),
     FSub(FMul(u[1], v[2]), FMul(v[1], u[2])) >>

\* struct OBJMaterial with its default member initializers
OBJMaterial(name) ==
  [Name |-> name, Albedo |-> <<Q(4, 5), Q(4, 5), Q(4, 5)>>,
   Emission |-> Vec(0, 0, 0), Roughness |-> Q(9, 10), Metallic |-> F(0),
   EmissionStrength |-> F(0), IOR |-> Q(3, 2), Transmission |-> F(0)]

\* struct SceneData with its default member initializers
SceneData ==
  [Materials |-> <<>>, Triangles |-> <<>>,
   CameraPosition |-> Vec(0, 0, 5), CameraTarget |-> Vec(0, 0, 0),
   CameraUp |-> Vec(0, 1, 0), HasCamera |-> FALSE,
   LightPosition |-> Vec(0, 5, 0), HasLight |-> FALSE]

\* a path is a directory and a file name; std::filesystem::path() is empty
Path(dir, name) == [dir |-> dir, name |-> name]
EmptyPath == Path("", "")
\* FileManager::ResolvePath: GetDirectory(basePath) / relativePath
ResolvePath(basePath, relativePath) == Path(basePath.dir, relativePath)

\* std::unordered_map<std::string, int>, empty
EmptyMap == [n \in {} |-> 0]

\* a SceneManager as constructed: the members of class SceneManager;
\* m_CurrentMaterial is the position in Materials it points to, 0 for nullptr
FreshSceneManager ==
  [m_SceneData |-> SceneData,
   m_TempVertices |-> <<>>, m_TempNormals |-> <<>>, m_TempTexCoords |-> <<>>,
   m_MaterialMap |-> EmptyMap, m_CurrentMaterialIndex |-> 0,
   m_BasePath |-> EmptyPath, m_CurrentMaterial |-> 0,
   m_TriangleTexture |-> 0, m_NormalTexture |-> 0, m_MaterialTexture |-> 0,
   m_TriMatTexture |-> 0, m_GPUDataValid |-> FALSE]

\* a plausible slip: the current material index is not reset
Clear_KeepsMaterialIndex(sm) ==
  [sm EXCEPT !.m_SceneData = SceneData,
             !.m_TempVertices = <<>>, !.m_TempNormals = <<>>,
             !.m_TempTexCoords = <<>>, !.m_MaterialMap = EmptyMap,
             !.m_CurrentMaterial = 0,
             !.m_TriangleTexture = 0, !.m_NormalTexture = 0,
             !.m_MaterialTexture = 0, !.m_TriMatTexture = 0,
             !.m_GPUDataValid = FALSE]

\* SceneManager::Clear; m_BasePath is not assigned
Clear(sm) ==
  [sm EXCEPT !.m_SceneData = SceneData,
             !.m_TempVertices = <<>>, !.m_TempNormals = <<>>,
             !.m_TempTexCoords = <<>>, !.m_MaterialMap = EmptyMap,
             !.m_CurrentMaterialIndex = 0, !.m_CurrentMaterial = 0,
             !.m_TriangleTexture = 0, !.m_NormalTexture = 0,
             !.m_MaterialTexture = 0, !.m_TriMatTexture = 0,
             !.m_GPUDataValid = FALSE]

\* a line of a file after Trim and Split(' '): the command, and its
\* arguments as converted by std::stof and std::stoi.  A face line keeps its
\* vertex tokens unsplit: a token is the sequence of its '/'-separated
\* fields, each <<>> (empty) or <<i>>
Line(cmd, name, vec, refs, num) ==
  [cmd |-> cmd, name |-> name, vec |-> vec, refs |-> refs, num |-> num]
CommentLine == Line("#", "", Vec(0, 0, 0), <<>>, 0)
VLine(x, y, z) == Line("v", "", Vec(x, y, z), <<>>, 0)
VnLine(x, y, z) == Line("vn", "", Vec(x, y, z), <<>>, 0)
VtLine(u, v) == Line("vt", "", Vec(u, v, 0), <<>>, 0)
FLine(refs) == Line("f", "", Vec(0, 0, 0), refs, 0)
MtllibLine(name) == Line("mtllib", name, Vec(0, 0, 0), <<>>, 0)
UsemtlLine(name) == Line("usemtl", name, Vec(0, 0, 0), <<>>, 0)
NewmtlLine(name) == Line("newmtl", name, Vec(0, 0, 0), <<>>, 0)
KdLine(r, g, b) == Line("Kd", "", Vec(r, g, b), <<>>, 0)
IllumLine(model) == Line("illum", "", Vec(0, 0, 0), <<>>, model)
\* the lines "Ns value", "d value" and "Tr value"
ValueLine(cmd, value) == Line(cmd, "", <<value, F(0), F(0)>>, <<>>, 0)

\* Split(token, '/'): empty fields are skipped
SplitSlash(token) == SelectSeq(token, LAMBDA field : field # <<>>)

\* SceneManager::ParseFaceVertex
ParseFaceVertex(token) ==
  LET parts == SplitSlash(token)
  IN  [vIdx |-> IF Len(parts) >= 1 THEN parts[1][1] ELSE 0,
       vtIdx |-> IF Len(parts) >= 2 THEN parts[2][1] ELSE 0,
       vnIdx |-> IF Len(parts) >= 3 THEN parts[3][1] ELSE 0]

\* if (idx < 0) idx = (int)size + idx + 1
Relative(idx, size) == IF idx < 0 THEN size + idx + 1 ELSE idx

\* the triangle of the fan at position i of ProcessFace (1 <= i, i + 1 < n,
\* counted from 0 as in the code), or <<>> when a vertex index is invalid
FanTriangle(sm, vertexIndices, normalIndices, i) ==
  LET nv == Len(sm.m_TempVertices)
      nn == Len(sm.m_TempNormals)
      idx0 == vertexIndices[1] - 1
      idx1 == vertexIndices[i + 1] - 1
      idx2 == vertexIndices[i + 2] - 1
      nIdx0 == normalIndices[1] - 1
      nIdx1 == normalIndices[i + 1] - 1
      nIdx2 == normalIndices[i + 2] - 1
      V0 == sm.m_TempVertices[idx0 + 1]
      V1 == sm.m_TempVertices[idx1 + 1]
      V2 == sm.m_TempVertices[idx2 + 1]
      faceNormal == Normalize(Cross(VSub(V1, V0), VSub(V2, V0)))
      smooth == /\ nIdx0 >= 0 /\ nIdx0 < nn
                /\ nIdx1 >= 0 /\ nIdx1 < nn
                /\ nIdx2 >= 0 /\ nIdx2 < nn
  IN  IF \/ idx0 < 0 \/ idx0 >= nv
         \/ idx1 < 0 \/ idx1 >= nv
         \/ idx2 < 0 \/ idx2 >= nv
      THEN <<>>
      ELSE << [V0 |-> V0, V1 |-> V1, V2 |-> V2,
               N0 |-> IF smooth THEN sm.m_TempNormals[nIdx0 + 1] ELSE faceNormal,
               N1 |-> IF smooth THEN sm.m_TempNormals[nIdx1 + 1] ELSE faceNormal,
               N2 |-> IF smooth THEN sm.m_TempNormals[nIdx2 + 1] ELSE faceNormal,
               MaterialIndex |-> sm.m_CurrentMaterialIndex] >>

\* the triangles pushed by the loop of ProcessFace from position i on
RECURSIVE FanFrom(_, _, _, _)
FanFrom(sm, vertexIndices, normalIndices, i) ==
  IF i + 1 < Len(vertexIndices)
  THEN FanTriangle(sm, vertexIndices, normalIndices, i)
         \o FanFrom(sm, vertexIndices, normalIndices, i + 1)
  ELSE <<>>

\* a plausible slip: the fan is attached to the second vertex of the face
\* (the loop starts at i = 2)
ProcessFace_LateStart(sm, refs) ==
  LET parsed == [k \in 1..Len(refs) |-> ParseFaceVertex(refs[k])]
      vertexIndices == [k \in 1..Len(refs) |->
                          Relative(parsed[k].vIdx, Len(sm.m_TempVertices))]
      normalIndices == [k \in 1..Len(refs) |->
                          Relative(parsed[k].vnIdx, Len(sm.m_TempNormals))]
  IN  [sm EXCEPT !.m_SceneData.Triangles =
                    @ \o FanFrom(sm, vertexIndices, normalIndices, 2)]

\* SceneManager::ProcessFace; refs are tokens[1..]
ProcessFace(sm, refs) ==
  LET parsed == [k \in 1..Len(refs) |-> ParseFaceVertex(refs[k])]
      vertexIndices == [k \in 1..Len(refs) |->
                          Relative(parsed[k].vIdx, Len(sm.m_TempVertices))]
      normalIndices == [k \in 1..Len(refs) |->
                          Relative(parsed[k].vnIdx, Len(sm.m_TempNormals))]
  IN  [sm EXCEPT !.m_SceneData.Triangles =
                    @ \o FanFrom(sm, vertexIndices, normalIndices, 1)]

\* a plausible slip: an unknown name gives "not found" (-1) instead of the
\* default material
GetMaterialIndex_NotFound(sm, name) ==
  IF name \in DOMAIN sm.m_MaterialMap THEN sm.m_MaterialMap[name] ELSE -1

\* SceneManager::GetMaterialIndex
GetMaterialIndex(sm, name) ==
  IF name \in DOMAIN sm.m_MaterialMap THEN sm.m_MaterialMap[name] ELSE 0

\* the roughness that the command Ns stores
RoughnessOf(ns) ==
  FMax(FSub(F(1), FMin(FDiv(ns, F(1000)), F(1))), Q(1, 25))

\* the commands d and Tr of SceneManager::ParseMTLLine
ParseDissolve(sm, cmd, value) ==
  LET opacity == IF cmd = "Tr" THEN FSub(F(1), value) ELSE value
  IN  IF FLt(opacity, Q(99, 100))
      THEN [sm EXCEPT !.m_SceneData.Materials[sm.m_CurrentMaterial].Transmission =
                         FSub(F(1), opacity)]
      ELSE sm

\* SceneManager::ParseMTLLine, for the commands newmtl, Kd, Ns, d, Tr and
\* illum
ParseMTLLine(sm, line) ==
  LET cur == sm.m_CurrentMaterial
  IN  IF line.cmd = "#" THEN sm
      ELSE IF line.cmd = "newmtl"
      THEN [sm EXCEPT !.m_SceneData.Materials = Append(@, OBJMaterial(line.name)),
                      !.m_MaterialMap =
                         (line.name :> Len(sm.m_SceneData.Materials)) @@ @,
                      !.m_CurrentMaterial = Len(sm.m_SceneData.Materials) + 1]
      ELSE IF cur # 0 /\ line.cmd = "Kd"
      THEN [sm EXCEPT !.m_SceneData.Materials[cur].Albedo = line.vec]
      ELSE IF cur # 0 /\ line.cmd = "Ns"
      THEN [sm EXCEPT !.m_SceneData.Materials[cur].Roughness =
                         RoughnessOf(line.vec[1])]
      ELSE IF cur # 0 /\ line.cmd \in {"d", "Tr"}
      THEN ParseDissolve(sm, line.cmd, line.vec[1])
      ELSE IF cur # 0 /\ line.cmd = "illum" /\ line.num = 3
      THEN [sm EXCEPT !.m_SceneData.Materials[cur].Metallic = F(1),
                      !.m_SceneData.Materials[cur].Roughness = Q(1, 10)]
      ELSE IF cur # 0 /\ line.cmd = "illum" /\ line.num = 7
      THEN [sm EXCEPT !.m_SceneData.Materials[cur].Transmission = F(1)]
      ELSE sm

RECURSIVE ParseMTLLines(_, _)
ParseMTLLines(sm, lines) ==
  IF lines = <<>> THEN sm
  ELSE ParseMTLLines(ParseMTLLine(sm, Head(lines)), Tail(lines))

\* the files on disk: the OBJ file of the run (objFile) and one MTL file
\* next to it; every other path cannot be opened
ObjPath == Path("assets", "scene.obj")
MtlPath == Path("assets", "scene.mtl")
MissingObjPath == Path("assets", "nonexistent_file.obj")
MissingMtlPath == Path("assets", "nonexistent_file.mtl")
MtlFile ==
  <<CommentLine, NewmtlLine("red"), KdLine(1, 0, 0),
    NewmtlLine("mirror"), IllumLine(3)>>

\* FileManager::ReadLines: std::nullopt (ok = FALSE) when the file cannot be
\* opened
ReadLines(path) ==
  IF path = ObjPath THEN [ok |-> TRUE, lines |-> objFile]
  ELSE IF path = MtlPath THEN [ok |-> TRUE, lines |-> mtlFile]
  ELSE [ok |-> FALSE, lines |-> <<>>]

\* SceneManager::LoadMTL: the manager afterwards and the returned flag
LoadMTL(sm, path) ==
  LET lines == ReadLines(path)
  IN  IF ~lines.ok
      THEN [sm |-> sm, returned |-> FALSE]
      ELSE [sm |-> [ParseMTLLines(sm, lines.lines) EXCEPT !.m_CurrentMaterial = 0],
            returned |-> TRUE]

\* SceneManager::ParseOBJLine, for the commands v, vn, vt, f, mtllib, usemtl
\* (the extensions c and lp are not among the lines of the model)
ParseOBJLine(sm, line) ==
  IF line.cmd = "v"
  THEN [sm EXCEPT !.m_TempVertices = Append(@, line.vec)]
  ELSE IF line.cmd = "vn"
  THEN [sm EXCEPT !.m_TempNormals = Append(@, Normalize(line.vec))]
  ELSE IF line.cmd = "vt"
  THEN [sm EXCEPT !.m_TempTexCoords = Append(@, <<line.vec[1], line.vec[2]>>)]
  ELSE IF line.cmd = "f" /\ Len(line.refs) + 1 >= 4
  THEN ProcessFace(sm, line.refs)
  ELSE IF line.cmd = "mtllib"
  THEN LoadMTL(sm, ResolvePath(sm.m_BasePath, line.name)).sm
  ELSE IF line.cmd = "usemtl"
  THEN [sm EXCEPT !.m_CurrentMaterialIndex = GetMaterialIndex(sm, line.name)]
  ELSE sm

\* glm::min and glm::max on vec3, component by component
VMin(u, v) == <<FMin(u[1], v[1]), FMin(u[2], v[2]), FMin(u[3], v[3])>>
VMax(u, v) == <<FMax(u[1], v[1]), FMax(u[2], v[2]), FMax(u[3], v[3])>>

\* one iteration of the first loop of NormalizeScene
GrowBounds(bounds, tri) ==
  [min |-> VMin(VMin(VMin(bounds.min, tri.V0), tri.V1), tri.V2),
   max |-> VMax(VMax(VMax(bounds.max, tri.V0), tri.V1), tri.V2)]

\* minBounds and maxBounds of NormalizeScene after each of the first k
\* iterations of its first loop; they start at FLT_MAX and -FLT_MAX, which
\* every coordinate is within, so the first vertex replaces them
RECURSIVE BoundsAfter(_, _)
BoundsAfter(triangles, k) ==
  IF k = 1
  THEN <<GrowBounds([min |-> triangles[1].V0, max |-> triangles[1].V0],
                    triangles[1])>>
  ELSE LET before == BoundsAfter(triangles, k - 1)
       IN  Append(before, GrowBounds(before[k - 1], triangles[k]))

\* SceneManager::NormalizeScene
NormalizeScene(sm, targetSize) ==
  LET triangles == sm.m_SceneData.Triangles
      bounds == BoundsAfter(triangles, Len(triangles))[Len(triangles)]
      minBounds == bounds.min
      maxBounds == bounds.max
      center == VScale(Q(1, 2), VAdd(minBounds, maxBounds))
      size == VSub(maxBounds, minBounds)
      maxDim == FMax(FMax(size[1], size[2]), size[3])
      scale == FDiv(targetSize, maxDim)
      moved(p) == VScale(scale, VSub(p, center))
  IN  IF sm.m_SceneData.Triangles = <<>> THEN sm
      ELSE IF FLt(maxDim, Q(1, 10000)) THEN sm
      ELSE [sm EXCEPT
              !.m_SceneData.Triangles =
                 [k \in 1..Len(@) |-> [@[k] EXCEPT !.V0 = moved(@), !.V1 = moved(@),
                                                   !.V2 = moved(@)]],
              !.m_SceneData.CameraPosition =
                 IF sm.m_SceneData.HasCamera THEN moved(@) ELSE @,
              !.m_SceneData.CameraTarget =
                 IF sm.m_SceneData.HasCamera THEN moved(@) ELSE @,
              !.m_SceneData.LightPosition =
                 IF sm.m_SceneData.HasLight THEN moved(@) ELSE @]

\* a plausible slip: the default material is created before the file is
\* known to be readable
OpenOBJ_DefaultFirst(sm, path) ==
  LET lines == ReadLines(path)
      withDefault ==
        [sm EXCEPT !.m_SceneData.Materials = Append(@, OBJMaterial("default")),
                   !.m_MaterialMap = ("default" :> 0) @@ @]
  IN  IF ~lines.ok
      THEN [ok |-> FALSE, sm |-> withDefault, lines |-> <<>>]
      ELSE [ok |-> TRUE, sm |-> [withDefault EXCEPT !.m_BasePath = path],
            lines |-> lines.lines]

\* SceneManager::LoadOBJ up to its loop: the file is read, the base path set
\* and the default material created
OpenOBJ(sm, path) ==
  LET lines == ReadLines(path)
  IN  IF ~lines.ok
      THEN [ok |-> FALSE, sm |-> sm, lines |-> <<>>]
      ELSE [ok |-> TRUE,
            sm |-> [sm EXCEPT !.m_BasePath = path,
                              !.m_SceneData.Materials =
                                 Append(@, OBJMaterial("default")),
                              !.m_MaterialMap = ("default" :> 0) @@ @],
            lines |-> lines.lines]

\* SceneManager::UploadToGPU: the manager afterwards and the returned flag;
\* glGenTextures hands out the names 1..4 again after glDeleteTextures
UploadToGPU(sm) ==
  IF sm.m_SceneData.Triangles = <<>>
  THEN [sm |-> sm, returned |-> FALSE]
  ELSE [sm |-> [sm EXCEPT !.m_TriangleTexture = 1, !.m_NormalTexture = 2,
                          !.m_TriMatTexture = 3, !.m_MaterialTexture = 4,
                          !.m_GPUDataValid = TRUE],
        returned |-> TRUE]

\* the lines every OBJ file of the model starts with: a unit square, one
\* normal, one texture coordinate, the material library and a material
Preamble ==
  <<CommentLine, VLine(0, 0, 0), VLine(1, 0, 0), VLine(1, 1, 0), VLine(0, 1, 0),
    VnLine(0, 0, 2), VtLine(0, 0), MtllibLine("scene.mtl"), UsemtlLine("red")>>

\* the vertex tokens "1", "2", "3/1/1", "-1//1", "0" and "5" of a face line
FaceTokens ==
  { << <<1>> >>, << <<2>> >>, << <<3>>, <<1>>, <<1>> >>,
    << <<-1>>, <<>>, <<1>> >>, << <<0>> >>, << <<5>> >> }
Faces == UNION {[1..n -> FaceTokens] : n \in 2..MaxFaceRefs}
FaceFiles == {Preamble \o <<FLine(refs)>> : refs \in Faces}

\* a triangle, a quad with a relative index, and a file without a face
TriangleFile == Preamble \o <<FLine(<< << <<1>> >>, << <<2>> >>, << <<3>>, <<1>>, <<1>> >> >>)>>
QuadFile ==
  Preamble \o <<FLine(<< << <<1>> >>, << <<2>> >>, << <<3>>, <<1>>, <<1>> >>,
                         << <<-1>>, <<>>, <<1>> >> >>)>>
\* a triangle whose material library cannot be read
UnknownMaterialFile ==
  <<VLine(0, 0, 0), VLine(1, 0, 0), VLine(1, 1, 0),
    MtllibLine("nonexistent_file.mtl"), UsemtlLine("red"),
    FLine(<< << <<1>> >>, << <<2>> >>, << <<3>> >> >>)>>
SceneFiles == {TriangleFile, QuadFile, Preamble, UnknownMaterialFile}

NoSceneCall ==
  [op |-> "none", path |-> EmptyPath, returned |-> FALSE,
   trianglesBefore |-> 0, validBefore |-> FALSE]
NotLoading == [active |-> FALSE, path |-> EmptyPath, lines |-> <<>>]
NoUniforms == [bound |-> FALSE, uNumTriangles |-> 0, rows |-> 0]

\* SceneManager::BindTextures on a manager whose textures have `rows` triangle
\* rows: the textures bound and the uniform uNumTriangles, or nothing
BindTextures(sm, rows, before) ==
  IF ~sm.m_GPUDataValid
  THEN before
  ELSE [bound |-> TRUE, uNumTriangles |-> Len(sm.m_SceneData.Triangles),
        rows |-> rows]

\* SceneManager::SceneManager, with the file objFile on disk
SceneConstructed ==
  /\ scene = FreshSceneManager
  /\ loading = NotLoading
  /\ sceneCall = NoSceneCall
  /\ sceneCalls = 0
  /\ textureRows = 0
  /\ uniforms = NoUniforms
SceneIdle == SceneConstructed /\ objFile = TriangleFile /\ mtlFile = MtlFile

\* ---------------------------------------------------------------------------
\* state machine: one surface, one ray, the three queries
\* ---------------------------------------------------------------------------
NoBoxResult == [hit |-> FALSE, tMin |-> F(0), tMax |-> F(0)]
NoTypeName == ""

Init ==
  /\ \E r \in Rays :
       /\ surface = r[1]
       /\ rayOrigin = r[2]
       /\ rayDirection = r[3]
  /\ \E g \in Ranges : tMinArg = g[1] /\ tMaxArg = g[2]
  /\ pc = "ready"
  /\ result = NoHit
  /\ boxResult = NoBoxResult
  /\ containsResult = FALSE
  /\ typeName = NoTypeName
  /\ ManagerConstructed
  /\ LoopEntry
  /\ SceneIdle

\* QuadricSurface::SetBoundingBoxEnabled
SetBoundingBoxEnabled(enabled) ==
  /\ pc = "ready"
  /\ surface.useBox # enabled
  /\ surface' = [surface EXCEPT !.useBox = enabled]
  /\ UNCHANGED <<rayOrigin, rayDirection, tMinArg, tMaxArg, pc, result,
                 boxResult, containsResult, typeName>>
  /\ UNCHANGED <<mgrVars, mainVars, sceneVars>>

\* result = surface.Intersect(rayOrigin, rayDirection, tMin, tMax); boxResult
\* keeps boxTMin and boxTMax of the bounding-box test made inside Intersect
CallIntersect ==
  /\ pc = "ready"
  /\ result' = Intersect(surface, rayOrigin, rayDirection, tMinArg, tMaxArg)
  /\ boxResult' = IF surface.useBox
                  THEN BoxIntersect(surface.bbox, rayOrigin, rayDirection)
                  ELSE boxResult
  /\ pc' = "intersected"
  /\ UNCHANGED <<surface, rayOrigin, rayDirection, tMinArg, tMaxArg,
                 containsResult, typeName>>
  /\ UNCHANGED <<mgrVars, mainVars, sceneVars>>

\* bbox.Intersect(rayOrigin, rayDirection, tMin, tMax) on the surface's box
CallBoxIntersect ==
  /\ pc = "ready"
  /\ boxResult' = BoxIntersect(surface.bbox, rayOrigin, rayDirection)
  /\ pc' = "boxed"
  /\ UNCHANGED <<surface, rayOrigin, rayDirection, tMinArg, tMaxArg, result,
                 containsResult, typeName>>
  /\ UNCHANGED <<mgrVars, mainVars, sceneVars>>

\* bbox.Contains(rayOrigin) on the surface's box
CallContains ==
  /\ pc = "ready"
  /\ containsResult' = Contains(surface.bbox, rayOrigin)
  /\ pc' = "contained"
  /\ UNCHANGED <<surface, rayOrigin, rayDirection, tMinArg, tMaxArg, result,
                 boxResult, typeName>>
  /\ UNCHANGED <<mgrVars, mainVars, sceneVars>>

Next ==
  \/ \E enabled \in BOOLEAN : SetBoundingBoxEnabled(enabled)
  \/ CallIntersect
  \/ CallBoxIntersect
  \/ CallContains

Spec == Init /\ [][Next]_vars

\* ---------------------------------------------------------------------------
\* properties of Intersect
\* ---------------------------------------------------------------------------
Intersected == pc = "intersected"
RayA == QuadA(surface.coeffs, rayOrigin, rayDirection)
RayB == QuadB(surface.coeffs, rayOrigin, rayDirection)
RayC == QuadC(surface.coeffs, rayOrigin, rayDirection)
PointAt(t) == VAdd(rayOrigin, VScale(t, rayDirection))

\* dot(Normal, u) up to the positive factor 1/sqrt(s)
NormalDot(normal, u) == Dot(normal.v, u)
\* |Normal|^2 = dot(v, v) / s
NormalLengthSquared(normal) == FDiv(Dot(normal.v, normal.v), normal.s)
\* Normal = u for a unit vector u: v is a positive multiple of u
NormalIs(normal, u) ==
  /\ FEq(NormalLengthSquared(normal), F(1))
  /\ \A k \in 1..3 :
       /\ FEq(FMul(normal.v[k], normal.v[k]), FProd(<<normal.s, u[k], u[k]>>))
       /\ Sgn(normal.v[k]) = Sgn(u[k])

\* C1: with the bounding box enabled, every reported hit point is inside the
\* box.
C1_HitInsideBox ==
  (Intersected /\ surface.useBox /\ result.Hit)
    => Contains(surface.bbox, result.Point)

\* a hit on a surface with the box enabled, away from the box centre plane
C1_Witness ==
  /\ Intersected /\ surface.useBox /\ result.Hit
  /\ surface = LowerHalfSphere
  /\ result.Point = Vec(0, 0, -2)

\* C2: whenever Hit is true, dot(Normal, rayDirection) <= 0.
C2_NormalFacesRay ==
  (Intersected /\ result.Hit) => FLe(NormalDot(result.Normal, rayDirection), F(0))

\* C3: whenever Hit is true the Normal has unit length, also where the
\* gradient vanishes (the apex of a cone).
C3_NormalUnitLength ==
  (Intersected /\ result.Hit) => FEq(NormalLengthSquared(result.Normal), F(1))

\* C4 as stated: every reported hit point lies on the surface,
\* Evaluate(Point) = 0.
C4_HitOnSurface ==
  (Intersected /\ result.Hit)
    => /\ result.Point = PointAt(result.Distance)
       /\ FEq(Evaluate(surface.coeffs, result.Point), F(0))

\* C4 amended: when the quadratic coefficient a of the ray is zero or at
\* least 1e-6 in magnitude, every reported hit point lies on the surface.
C4_HitOnSurfaceSolved ==
  (Intersected /\ result.Hit /\ (RayA = F(0) \/ FGe(FAbs(RayA), Epsilon)))
    => /\ result.Point = PointAt(result.Distance)
       /\ FEq(Evaluate(surface.coeffs, result.Point), F(0))

\* a hit found by the quadratic branch, by the second root
C4_Witness ==
  /\ Intersected /\ result.Hit
  /\ FGe(FAbs(RayA), Epsilon)
  /\ RayC # F(0)
  /\ result.Distance = SolveQuadratic(RayA, RayB, RayC).t1
  /\ SolveQuadratic(RayA, RayB, RayC).t0 # SolveQuadratic(RayA, RayB, RayC).t1

\* the real roots of a t^2 + b t + c = 0 (a, b not both zero, rational roots)
RealRoots(a, b, c) ==
  LET disc == FSub(FMul(b, b), FProd(<<F(4), a, c>>))
  IN  IF a = F(0) THEN {FDiv(FNeg(c), b)}
      ELSE IF FLt(disc, F(0)) THEN {}
      ELSE {FDiv(FAdd(FNeg(b), FSqrt(disc)), FMul(F(2), a)),
            FDiv(FSub(FNeg(b), FSqrt(disc)), FMul(F(2), a))}
RationalRoots(a, b, c) ==
  \/ a = F(0)
  \/ FLt(FSub(FMul(b, b), FProd(<<F(4), a, c>>)), F(0))
  \/ IsSquare(FSub(FMul(b, b), FProd(<<F(4), a, c>>)))
RootsInRange(a, b, c, lo, hi) == {t \in RealRoots(a, b, c) : InRange(t, lo, hi)}
Smallest(S) == CHOOSE t \in S : \A u \in S : FLe(t, u)

\* C5: without a bounding box and with a, b not both zero, Intersect hits at
\* the smallest real root inside [tMin, tMax] when there is one, and misses
\* only when there is none.
C5_SmallestRootInRange ==
  (/\ Intersected /\ ~surface.useBox
   /\ ~(RayA = F(0) /\ RayB = F(0))
   /\ RationalRoots(RayA, RayB, RayC))
    => LET R == RootsInRange(RayA, RayB, RayC, tMinArg, tMaxArg)
       IN  IF R = {} THEN ~result.Hit
           ELSE result.Hit /\ result.Distance = Smallest(R)

\* the two distinct real roots of the ray's quadratic exist and lie in the
\* caller's range
TwoRootsInRange ==
  /\ FGe(FAbs(RayA), Epsilon)
  /\ RationalRoots(RayA, RayB, RayC)
  /\ Cardinality(RealRoots(RayA, RayB, RayC)) = 2
  /\ RootsInRange(RayA, RayB, RayC, tMinArg, tMaxArg) = RealRoots(RayA, RayB, RayC)
LowRoot == Smallest(RealRoots(RayA, RayB, RayC))
HighRoot == CHOOSE t \in RealRoots(RayA, RayB, RayC) : t # LowRoot

\* C6: with the box enabled and two roots t0 < t1 in range, the hit is at t0
\* if its point is inside the box, else at t1 if its point is inside the box,
\* else there is no hit.
C6_RootSelection ==
  (Intersected /\ surface.useBox /\ TwoRootsInRange)
    => IF Contains(surface.bbox, PointAt(LowRoot))
       THEN result.Hit /\ result.Distance = LowRoot
       ELSE IF Contains(surface.bbox, PointAt(HighRoot))
            THEN result.Hit /\ result.Distance = HighRoot
            ELSE ~result.Hit

\* C7: a reported Distance lies in the caller's [tMin, tMax] and, with the box
\* enabled, in the overlap interval returned by BoundingBox::Intersect.
C7_DistanceInRange ==
  (Intersected /\ result.Hit)
    => /\ InRange(result.Distance, tMinArg, tMaxArg)
       /\ surface.useBox
            => /\ boxResult.hit
               /\ InRange(result.Distance, boxResult.tMin, boxResult.tMax)

\* a hit at the far root, the near root lying before the box overlap
C7_Witness ==
  /\ Intersected /\ result.Hit /\ surface.useBox
  /\ FGt(boxResult.tMin, tMinArg)
  /\ FLt(LowRoot, boxResult.tMin)
  /\ InRange(LowRoot, tMinArg, tMaxArg)
  /\ result.Distance = HighRoot

\* a box with some Min component above the matching Max component
Degenerate(bbox) == \E k \in 1..3 : FGt(bbox.Min[k], bbox.Max[k])

\* C8: a degenerate box contains no point and is intersected by no ray.
C8_DegenerateBoxRejects ==
  Degenerate(surface.bbox)
    => /\ pc = "contained" => ~containsResult
       /\ pc = "boxed" => ~boxResult.hit

\* the slab test with an explicit branch on the axes where the direction is
\* zero: such an axis passes exactly when the origin is within [Min, Max]
SlabLow(bbox, O, d, k) ==
  IF d[k] = F(0) THEN NInf
  ELSE FMin(SlabT1(bbox, O, d, k), SlabT2(bbox, O, d, k))
SlabHigh(bbox, O, d, k) ==
  IF d[k] = F(0) THEN PInf
  ELSE FMax(SlabT1(bbox, O, d, k), SlabT2(bbox, O, d, k))
BranchedBoxHit(bbox, O, d) ==
  LET lo == FMax(FMax(SlabLow(bbox, O, d, 1), SlabLow(bbox, O, d, 2)),
                 SlabLow(bbox, O, d, 3))
      hi == FMin(FMin(SlabHigh(bbox, O, d, 1), SlabHigh(bbox, O, d, 2)),
                 SlabHigh(bbox, O, d, 3))
  IN  /\ \A k \in 1..3 :
           d[k] = F(0) => FGe(O[k], bbox.Min[k]) /\ FLe(O[k], bbox.Max[k])
      /\ FGe(hi, lo) /\ FGe(hi, F(0))

\* C9: an axis with a zero direction component passes BoundingBox::Intersect
\* exactly when the origin coordinate is within [Min, Max], boundaries
\* included; so CreateCylinder(r, h) and a ray (0,0,z) + t (1,0,0) miss when
\* |z| > h/2 and hit at distance r when |z| <= h/2.
C9_ZeroDirectionAxis ==
  /\ (pc = "boxed" /\ \E k \in 1..3 : rayDirection[k] = F(0))
       => boxResult.hit = BranchedBoxHit(surface.bbox, rayOrigin, rayDirection)
  /\ (/\ Intersected /\ surface = CreateCylinder(F(1), F(2))
      /\ rayOrigin[1] = F(0) /\ rayOrigin[2] = F(0)
      /\ rayDirection = Vec(1, 0, 0))
       => IF FLe(FAbs(rayOrigin[3]), F(1))
          THEN result.Hit /\ result.Distance = F(1)
          ELSE ~result.Hit

\* C10: CreateSphere(r) and the ray (0,0,z0) + t (0,0,-1), z0 > r, with
\* z0 - r in range: Hit, Distance z0 - r, Point (0,0,r), Normal (0,0,1).
C10_SphereFromAbove ==
  \A r \in 1..MaxRadius : \A z0 \in (r + 1)..MaxZ :
    (/\ Intersected /\ surface = CreateSphere(F(r))
     /\ rayOrigin = Vec(0, 0, z0) /\ rayDirection = Vec(0, 0, -1)
     /\ InRange(F(z0 - r), tMinArg, tMaxArg))
      => /\ result.Hit
         /\ result.Distance = F(z0 - r)
         /\ result.Point = Vec(0, 0, r)
         /\ NormalIs(result.Normal, Vec(0, 0, 1))

C10_Witness ==
  /\ Intersected /\ surface = CreateSphere(F(1))
  /\ rayOrigin = Vec(0, 0, 3) /\ rayDirection = Vec(0, 0, -1)
  /\ result.Hit /\ result.Distance = F(2)

\* ---------------------------------------------------------------------------
\* C11: Intersect with the zero vector as direction returns Hit = false, for
\* every surface, with or without its bounding box, every origin and range
\* ---------------------------------------------------------------------------
ZeroDirection == rayDirection = Vec(0, 0, 0)

C11_ZeroDirectionMisses ==
  (Intersected /\ ZeroDirection) => ~result.Hit

\* the origin lies strictly inside the surface (c < 0) and the range has no
\* upper limit, bounding box off
C11_Witness ==
  /\ Intersected /\ ZeroDirection /\ ~surface.useBox
  /\ FLt(RayC, F(0)) /\ tMaxArg = PInf /\ ~result.Hit

\* ---------------------------------------------------------------------------
\* state machine of one QuadricManager: at most MaxCalls calls after
\* construction
\* ---------------------------------------------------------------------------
RayIdle ==
  /\ surface = CreateSphere(F(1))
  /\ rayOrigin = Vec(0, 0, 0)
  /\ rayDirection = Vec(0, 0, 1)
  /\ tMinArg = DefaultTMin
  /\ tMaxArg = DefaultTMax
  /\ pc = "idle"
  /\ result = NoHit
  /\ boxResult = NoBoxResult
  /\ containsResult = FALSE
  /\ typeName = NoTypeName

ManagerInit == RayIdle /\ ManagerConstructed /\ LoopEntry /\ SceneIdle

Called(op, index, returned, changed) ==
  /\ calls < MaxCalls
  /\ calls' = calls + 1
  /\ lastCall' = [op |-> op, index |-> index, returned |-> returned,
                  changed |-> changed]
  /\ UNCHANGED <<rayVars, mainVars, sceneVars>>

\* QuadricManager::InitializeDefaults
InitializeDefaults ==
  /\ m_Quadrics' = [m_Quadrics EXCEPT ![0] = DefaultSphere, ![1] = DefaultEllipsoid]
  /\ m_NumQuadrics' = 2
  /\ Called("InitializeDefaults", 0, ZeroQuadric, FALSE)
  /\ UNCHANGED <<m_SelectedQuadric, m_ShowEditor, emptyStatic>>

\* QuadricManager::ToggleEditor
ToggleEditor ==
  /\ m_ShowEditor' = ~m_ShowEditor
  /\ Called("ToggleEditor", 0, ZeroQuadric, FALSE)
  /\ UNCHANGED <<m_Quadrics, m_NumQuadrics, m_SelectedQuadric, emptyStatic>>

\* QuadricManager::RenderEditor, one frame: the index field delivers sel, one
\* widget of the selected entry delivers edit, the close box of the window
\* may be clicked; lastCall.changed is the returned flag
RenderEditor(sel, edit, closed) ==
  LET selected == IF sel.typed THEN ClampSelected(sel.value) ELSE m_SelectedQuadric
      q == m_Quadrics[selected]
  IN  IF ~m_ShowEditor
      THEN /\ Called("RenderEditor", m_SelectedQuadric, ZeroQuadric, FALSE)
           /\ UNCHANGED <<m_Quadrics, m_NumQuadrics, m_SelectedQuadric,
                          m_ShowEditor, emptyStatic>>
      ELSE /\ m_ShowEditor' = ~closed
           /\ m_SelectedQuadric' = selected
           /\ m_NumQuadrics' = IF sel.typed
                               THEN SelectedCount(sel.value, m_NumQuadrics)
                               ELSE m_NumQuadrics
           /\ m_Quadrics' = [m_Quadrics EXCEPT ![selected] = ApplyEdit(q, edit)]
           /\ Called("RenderEditor", selected, ZeroQuadric, EditChanged(q, edit))
           /\ UNCHANGED emptyStatic

\* QuadricManager::UploadToShader: lastCall.index is the number of entries
\* read, lastCall.returned the last of them
UploadToShader ==
  LET read == {i \in 0..(m_NumQuadrics - 1) : i < MAX_QUADRICS}
      n == Cardinality(read)
  IN  /\ Called("UploadToShader", n,
                IF n = 0 THEN ZeroQuadric ELSE m_Quadrics[n - 1], FALSE)
      /\ UNCHANGED <<m_Quadrics, m_NumQuadrics, m_SelectedQuadric,
                     m_ShowEditor, emptyStatic>>

\* the object behind a slot
SlotValue(slot) == IF slot.static THEN emptyStatic ELSE m_Quadrics[slot.index]

\* Quadric q = manager.GetQuadric(index), on a non-const manager
ReadQuadric(index) ==
  /\ Called("GetQuadric", index, SlotValue(GetQuadric(index)), FALSE)
  /\ UNCHANGED <<m_Quadrics, m_NumQuadrics, m_SelectedQuadric, m_ShowEditor,
                 emptyStatic>>

\* Quadric q = manager.GetQuadric(index), on a const manager
ReadQuadricConst(index) ==
  LET slot == GetQuadricConst(index)
  IN  /\ Called("GetQuadric const", index,
                IF slot.static THEN ZeroQuadric ELSE m_Quadrics[slot.index], FALSE)
      /\ UNCHANGED <<m_Quadrics, m_NumQuadrics, m_SelectedQuadric,
                     m_ShowEditor, emptyStatic>>

\* manager.GetQuadric(index) = value: a write through the returned reference
WriteQuadric(index, value) ==
  LET slot == GetQuadric(index)
  IN  /\ emptyStatic' = IF slot.static THEN value ELSE emptyStatic
      /\ m_Quadrics' = IF slot.static
                       THEN m_Quadrics
                       ELSE [m_Quadrics EXCEPT ![slot.index] = value]
      /\ Called("GetQuadric write", index, value, FALSE)
      /\ UNCHANGED <<m_NumQuadrics, m_SelectedQuadric, m_ShowEditor>>

ManagerNext ==
  \/ InitializeDefaults
  \/ ToggleEditor
  \/ \E sel \in SelectorEvents, edit \in Edits, closed \in BOOLEAN :
       RenderEditor(sel, edit, closed)
  \/ UploadToShader
  \/ \E index \in AccessIndices : ReadQuadric(index)
  \/ \E index \in AccessIndices : ReadQuadricConst(index)
  \/ \E index \in AccessIndices : WriteQuadric(index, WrittenEntry)

ManagerSpec == ManagerInit /\ [][ManagerNext]_vars

OutOfRange(index) == index < 0 \/ index >= MAX_QUADRICS

\* ---------------------------------------------------------------------------
\* C13: GetQuadric(index) with index < 0 or index >= 8 followed by a write
\* through the returned reference leaves the 8 stored entries and the active
\* count unchanged
\* ---------------------------------------------------------------------------
C13_OutOfRangeWriteKeepsScene ==
  [][(lastCall'.op = "GetQuadric write" /\ OutOfRange(lastCall'.index)
        /\ calls' = calls + 1)
       => (m_Quadrics' = m_Quadrics /\ m_NumQuadrics' = m_NumQuadrics)]_vars

\* an out-of-range write made on a manager that holds the two default entries
C13_Witness ==
  /\ lastCall.op = "GetQuadric write" /\ OutOfRange(lastCall.index)
  /\ emptyStatic = WrittenEntry
  /\ m_NumQuadrics = 2 /\ m_Quadrics[1] = DefaultEllipsoid

\* ---------------------------------------------------------------------------
\* C14: GetQuadric(index) with index outside [0, 8) returns the all-zero
\* default entry after any sequence of earlier calls, earlier out-of-range
\* writes included
\* ---------------------------------------------------------------------------
C14_OutOfRangeGetIsDefault ==
  (lastCall.op \in {"GetQuadric", "GetQuadric const"} /\ OutOfRange(lastCall.index))
    => lastCall.returned = ZeroQuadric

\* ---------------------------------------------------------------------------
\* C15: a write of entry i, 0 <= i < 8, with i >= the active count makes the
\* active count i + 1, for a write through GetQuadric(i) and for an edit of
\* the entry selected in the editor
\* ---------------------------------------------------------------------------
C15_WriteExtendsCount ==
  [][\A i \in 0..(MAX_QUADRICS - 1) :
       (/\ calls' = calls + 1
        /\ lastCall'.index = i
        /\ i >= m_NumQuadrics
        /\ \/ lastCall'.op = "GetQuadric write"
           \/ lastCall'.op = "RenderEditor" /\ lastCall'.changed)
         => m_NumQuadrics' = i + 1]_vars

\* ---------------------------------------------------------------------------
\* C16: after any sequence of construction, InitializeDefaults, selections
\* and edits, 0 <= active count <= 8 and the selected index is in [0, 7];
\* UploadToShader reads no more than the 8 entries
\* ---------------------------------------------------------------------------
C16_CountAndSelectionInRange ==
  /\ 0 <= m_NumQuadrics /\ m_NumQuadrics <= MAX_QUADRICS
  /\ 0 <= m_SelectedQuadric /\ m_SelectedQuadric <= MAX_QUADRICS - 1
  /\ lastCall.op = "UploadToShader" => lastCall.index <= MAX_QUADRICS

\* the index field delivered 8 on a manager with the two default entries:
\* the selection is the last entry and all 8 entries are active
C16_Witness ==
  /\ lastCall.op = "RenderEditor" /\ m_ShowEditor
  /\ m_SelectedQuadric = MAX_QUADRICS - 1 /\ m_NumQuadrics = MAX_QUADRICS
  /\ m_Quadrics[0] = DefaultSphere

\* ---------------------------------------------------------------------------
\* state machine of the render loop of Main.cpp: one action per iteration
\* ---------------------------------------------------------------------------
MainInit == RayIdle /\ ManagerConstructed /\ LoopEntry /\ SceneIdle

\* what glfwPollEvents delivers to KeyCallback and FramebufferSizeCallback in
\* one frame: nothing, G (toggle the editor), F (depth of field), a resize
PolledEvents == {"none", "G", "F", "resize"}

\* widgets of the editor acted on in the frames of the model
FrameEdits == {"none", "DragFloat A", "Combo", "Sphere (r=1)"}

\* int srcAccum = s_FrameIndex % 2 with every second frame index
SrcAccum_Halved(frameIndex) == (frameIndex \div 2) % 2

\* the ping-pong indices of the accumulation buffers
SrcAccum(frameIndex) == frameIndex % 2
DstAccum(src) == 1 - src

\* one iteration of the loop of main: the camera update, the reset of the
\* accumulation, the path-trace pass (uFrame = s_FrameIndex), RenderImGui
\* with the editor, glfwPollEvents, s_FrameIndex++; RenderAccumulate reads
\* buffer srcAccum and writes buffer dstAccum, RenderDisplay shows dstAccum.
\* RenderImGui repeats the editor of QuadricManager::RenderEditor line by
\* line, but declares `changed` after the index field
Frame(cameraMoved, sel, edit, closed, event) ==
  LET frameIndex == IF s_ResetAccumulation \/ cameraMoved THEN 0 ELSE s_FrameIndex
      selected == IF sel.typed THEN ClampSelected(sel.value) ELSE s_SelectedQuadric
      q == s_Quadrics[selected]
      changed == EditChanged(q, edit)
      shown == IF s_ShowQuadricEditor THEN ~closed ELSE FALSE
  IN  /\ frames < MaxFrames
      /\ frames' = frames + 1
      /\ uFrame' = frameIndex
      /\ srcAccum' = SrcAccum(frameIndex)
      /\ dstAccum' = DstAccum(SrcAccum(frameIndex))
      /\ displayed' = DstAccum(SrcAccum(frameIndex))
      /\ IF s_ShowQuadricEditor
         THEN /\ s_SelectedQuadric' = selected
              /\ s_NumQuadrics' = IF sel.typed
                                  THEN SelectedCount(sel.value, s_NumQuadrics)
                                  ELSE s_NumQuadrics
              /\ s_Quadrics' = [s_Quadrics EXCEPT ![selected] = ApplyEdit(q, edit)]
         ELSE UNCHANGED <<s_SelectedQuadric, s_NumQuadrics, s_Quadrics>>
      /\ sceneEdited' = (s_Quadrics' # s_Quadrics \/ s_NumQuadrics' # s_NumQuadrics)
      /\ s_ShowQuadricEditor' = IF event = "G" THEN ~shown ELSE shown
      /\ s_ResetAccumulation' = \/ s_ShowQuadricEditor /\ changed
                                \/ event \in {"F", "resize"}
      /\ s_FrameIndex' = frameIndex + 1
      /\ UNCHANGED <<rayVars, mgrVars, sceneVars>>

MainNext ==
  \E cameraMoved \in BOOLEAN, sel \in SelectorEvents, edit \in FrameEdits,
     closed \in BOOLEAN, event \in PolledEvents :
       Frame(cameraMoved, sel, edit, closed, event)

MainSpec == MainInit /\ [][MainNext]_vars

\* ---------------------------------------------------------------------------
\* C17: when the editor changes a field of a scene entry or the active count
\* during a frame, the path-trace pass of the next frame runs with frame
\* index 0
\* ---------------------------------------------------------------------------
C17_EditResetsAccumulation ==
  [][(sceneEdited /\ frames' = frames + 1) => uFrame' = 0]_vars

\* ---------------------------------------------------------------------------
\* state machine of one SceneManager: at most MaxSceneCalls calls after
\* construction; LoadOBJ advances one line of the file per step
\* ---------------------------------------------------------------------------
SceneFrame == UNCHANGED <<rayVars, mgrVars, mainVars, objFile, mtlFile, uniforms>>

SceneInit ==
  /\ RayIdle /\ ManagerConstructed /\ LoopEntry
  /\ SceneConstructed
  /\ objFile \in SceneFiles
  /\ mtlFile = MtlFile

FaceInit ==
  /\ RayIdle /\ ManagerConstructed /\ LoopEntry
  /\ SceneConstructed
  /\ objFile \in FaceFiles
  /\ mtlFile = MtlFile

Returned(op, path, returned) ==
  sceneCall' = [op |-> op, path |-> path, returned |-> returned,
                trianglesBefore |-> Len(scene.m_SceneData.Triangles),
                validBefore |-> scene.m_GPUDataValid]

\* SceneManager::LoadOBJ(path), entry: returns false when the file cannot be
\* opened, otherwise goes on to the loop over the lines
BeginLoadOBJ(path) ==
  LET opened == OpenOBJ(scene, path)
  IN  /\ ~loading.active
      /\ sceneCalls < MaxSceneCalls
      /\ sceneCalls' = sceneCalls + 1
      /\ scene' = opened.sm
      /\ IF opened.ok
         THEN /\ loading' = [active |-> TRUE, path |-> path, lines |-> opened.lines]
              /\ UNCHANGED sceneCall
         ELSE /\ Returned("LoadOBJ", path, FALSE)
              /\ UNCHANGED loading
      /\ UNCHANGED textureRows
      /\ SceneFrame

\* SceneManager::LoadOBJ, one iteration of the loop: ParseOBJLine(line)
ParseNextLine ==
  /\ loading.active
  /\ loading.lines # <<>>
  /\ scene' = ParseOBJLine(scene, Head(loading.lines))
  /\ loading' = [loading EXCEPT !.lines = Tail(@)]
  /\ UNCHANGED <<sceneCall, sceneCalls, textureRows>>
  /\ SceneFrame

\* SceneManager::LoadOBJ, after the loop: NormalizeScene(6.0f) and the
\* returned flag
FinishLoadOBJ ==
  /\ loading.active
  /\ loading.lines = <<>>
  /\ scene' = NormalizeScene(scene, F(6))
  /\ sceneCall' = [op |-> "LoadOBJ", path |-> loading.path,
                   returned |-> scene'.m_SceneData.Triangles # <<>>,
                   trianglesBefore |-> Len(scene.m_SceneData.Triangles),
                   validBefore |-> scene.m_GPUDataValid]
  /\ loading' = NotLoading
  /\ UNCHANGED <<sceneCalls, textureRows>>
  /\ SceneFrame

\* SceneManager::LoadMTL(path), called directly
CallLoadMTL(path) ==
  /\ ~loading.active
  /\ sceneCalls < MaxSceneCalls
  /\ sceneCalls' = sceneCalls + 1
  /\ scene' = LoadMTL(scene, path).sm
  /\ Returned("LoadMTL", path, LoadMTL(scene, path).returned)
  /\ UNCHANGED <<loading, textureRows>>
  /\ SceneFrame

\* SceneManager::UploadToGPU: the textures created have one row per triangle
CallUploadToGPU ==
  /\ ~loading.active
  /\ sceneCalls < MaxSceneCalls
  /\ sceneCalls' = sceneCalls + 1
  /\ scene' = UploadToGPU(scene).sm
  /\ Returned("UploadToGPU", EmptyPath, UploadToGPU(scene).returned)
  /\ textureRows' = IF UploadToGPU(scene).returned
                    THEN Len(scene.m_SceneData.Triangles)
                    ELSE textureRows
  /\ UNCHANGED loading
  /\ SceneFrame

\* SceneManager::Clear: glDeleteTextures on the four textures
CallClear ==
  /\ ~loading.active
  /\ sceneCalls < MaxSceneCalls
  /\ sceneCalls' = sceneCalls + 1
  /\ scene' = Clear(scene)
  /\ Returned("Clear", EmptyPath, FALSE)
  /\ textureRows' = 0
  /\ UNCHANGED loading
  /\ SceneFrame

SceneNext ==
  \/ \E path \in {ObjPath, MissingObjPath} : BeginLoadOBJ(path)
  \/ ParseNextLine
  \/ FinishLoadOBJ
  \/ \E path \in {MtlPath, MissingMtlPath} : CallLoadMTL(path)
  \/ CallUploadToGPU
  \/ CallClear

SceneSpec == SceneInit /\ [][SceneNext]_vars

\* the loads of one file, for every face line of FaceFiles
FaceNext ==
  \/ BeginLoadOBJ(ObjPath)
  \/ ParseNextLine
  \/ FinishLoadOBJ

FaceSpec == FaceInit /\ [][FaceNext]_vars

\* ---------------------------------------------------------------------------
\* C18: a face line with n >= 3 vertex references that all resolve appends
\* exactly the n - 2 triangles (V0, Vi, Vi+1), i = 1..n-2, with the current
\* material index; a triangle of the fan with an unresolvable index is
\* skipped
\* ---------------------------------------------------------------------------
\* the vertex a reference v of a face names among count vertices (1-based,
\* negative: counted from the end), 0 when it names none
Resolved(v, count) ==
  IF v >= 1 /\ v <= count THEN v
  ELSE IF v <= -1 /\ v >= -count THEN count + 1 + v
  ELSE 0

\* the first field of a vertex token
VertexRef(token) == token[1][1]

\* the positions i of the fan whose three references resolve
FanPositions(refs, count) ==
  {i \in 1..(Len(refs) - 2) :
     /\ Resolved(VertexRef(refs[1]), count) # 0
     /\ Resolved(VertexRef(refs[i + 1]), count) # 0
     /\ Resolved(VertexRef(refs[i + 2]), count) # 0}

\* corners and material of a triangle, without its normals
Corners(tri) == <<tri.V0, tri.V1, tri.V2, tri.MaterialIndex>>

\* the i-th smallest element of a set of numbers
RECURSIVE Nth(_, _)
Nth(S, i) ==
  LET least == CHOOSE x \in S : \A y \in S : x <= y
  IN  IF i = 1 THEN least ELSE Nth(S \ {least}, i - 1)

FaceStep ==
  /\ loading.active /\ loading.lines # <<>>
  /\ Head(loading.lines).cmd = "f"
  /\ Len(Head(loading.lines).refs) >= 3
  /\ loading'.lines = Tail(loading.lines)

C18_FanTriangulation ==
  [][FaceStep =>
       LET refs == Head(loading.lines).refs
           vertices == scene.m_TempVertices
           count == Len(vertices)
           kept == FanPositions(refs, count)
           before == scene.m_SceneData.Triangles
           after == scene'.m_SceneData.Triangles
           at(k) == vertices[Resolved(VertexRef(refs[k]), count)]
       IN  /\ Len(after) = Len(before) + Cardinality(kept)
           /\ \A k \in 1..Len(before) : after[k] = before[k]
           /\ \A j \in 1..Cardinality(kept) :
                Corners(after[Len(before) + j]) =
                  <<at(1), at(Nth(kept, j) + 1), at(Nth(kept, j) + 2),
                    scene.m_CurrentMaterialIndex>>
           /\ (\A k \in 1..Len(refs) : Resolved(VertexRef(refs[k]), count) # 0)
                => Cardinality(kept) = Len(refs) - 2]_vars

\* the second load of the quad file: the quad 1 2 3/1/1 -1//1 is appended as
\* the two triangles (v1, v2, v3) and (v1, v3, v8) with the index 4 that
\* "red" has then, after the two triangles of the first load
C18_Witness ==
  /\ loading.active /\ loading.lines = <<>>
  /\ sceneCalls = 2
  /\ objFile = QuadFile
  /\ Len(scene.m_SceneData.Triangles) = 4
  /\ Corners(scene.m_SceneData.Triangles[3]) =
       <<Vec(0, 0, 0), Vec(1, 0, 0), Vec(1, 1, 0), 4>>
  /\ Corners(scene.m_SceneData.Triangles[4]) =
       <<Vec(0, 0, 0), Vec(1, 1, 0), Vec(0, 1, 0), 4>>

FailedLoadStep ==
  /\ ~loading.active /\ ~loading'.active
  /\ sceneCalls' = sceneCalls + 1
  /\ sceneCall'.op = "LoadOBJ"
  /\ ~ReadLines(sceneCall'.path).ok

C20_FailedLoadKeepsScene ==
  [][FailedLoadStep =>
       /\ ~sceneCall'.returned
       /\ scene'.m_SceneData = scene.m_SceneData
       /\ Len(scene'.m_SceneData.Triangles) = sceneCall'.trianglesBefore
       /\ scene' = scene]_vars

\* LoadOBJ has failed on a missing file, on a manager that holds the two
\* triangles and three materials of an earlier load
C20_Witness ==
  /\ sceneCall.op = "LoadOBJ" /\ ~loading.active
  /\ sceneCall.path = MissingObjPath
  /\ ~sceneCall.returned
  /\ sceneCall.trianglesBefore = 2
  /\ Len(scene.m_SceneData.Triangles) = 2
  /\ Len(scene.m_SceneData.Materials) = 3

\* ---------------------------------------------------------------------------
\* C21: after every step of every sequence of calls, each triangle's
\* MaterialIndex is at least 0 and below the number of materials, and a
\* usemtl line naming a material that is not known selects index 0
\* ---------------------------------------------------------------------------
UnknownUsemtlStep ==
  /\ loading.active /\ loading.lines # <<>>
  /\ Head(loading.lines).cmd = "usemtl"
  /\ Head(loading.lines).name \notin DOMAIN scene.m_MaterialMap
  /\ loading'.lines = Tail(loading.lines)

\* every triangle of sm names one of the materials of sm
MaterialIndicesValid(sm) ==
  \A k \in 1..Len(sm.m_SceneData.Triangles) :
     /\ sm.m_SceneData.Triangles[k].MaterialIndex >= 0
     /\ sm.m_SceneData.Triangles[k].MaterialIndex < Len(sm.m_SceneData.Materials)

C21_MaterialIndexInRange ==
  [][MaterialIndicesValid(scene')
       /\ (UnknownUsemtlStep => scene'.m_CurrentMaterialIndex = 0)]_vars

\* the load of the file whose material library is missing has returned after
\* an earlier load had left the current index at 1: its usemtl named an
\* unknown material and its triangle carries index 0
C21_Witness ==
  /\ objFile = UnknownMaterialFile
  /\ sceneCall.op = "LoadOBJ" /\ sceneCall.returned /\ ~loading.active
  /\ "red" \notin DOMAIN scene.m_MaterialMap
  /\ Len(scene.m_SceneData.Triangles) = 1
  /\ scene.m_SceneData.Triangles[1].MaterialIndex = 0
  /\ scene.m_CurrentMaterialIndex = 0

\* ---------------------------------------------------------------------------
\* C22: LoadOBJ(p) starts from a cleared scene: whatever was loaded before,
\* the triangles and materials after it are those of loading p into a freshly
\* constructed SceneManager, and it returns true only if p contributed a
\* triangle
\* ---------------------------------------------------------------------------
\* the managers after each of the first k lines of LoadOBJ on a freshly
\* constructed SceneManager
RECURSIVE FreshAfter(_, _)
FreshAfter(lines, k) ==
  IF k = 0
  THEN <<OpenOBJ(FreshSceneManager, ObjPath).sm>>
  ELSE LET before == FreshAfter(lines, k - 1)
       IN  Append(before, ParseOBJLine(before[k], lines[k]))

\* the scene data of a freshly constructed SceneManager after LoadOBJ(ObjPath)
FreshLoad ==
  NormalizeScene(FreshAfter(objFile, Len(objFile))[Len(objFile) + 1], F(6)).m_SceneData

\* the step in which a call of LoadOBJ on a readable file returns
LoadReturns ==
  /\ loading.active /\ loading.lines = <<>>
  /\ ~loading'.active

C22_LoadStartsCleared ==
  [][LoadReturns =>
       /\ scene'.m_SceneData.Triangles = FreshLoad.Triangles
       /\ scene'.m_SceneData.Materials = FreshLoad.Materials
       /\ sceneCall'.returned => FreshLoad.Triangles # <<>>]_vars

\* ---------------------------------------------------------------------------
\* state machine of LoadMTL on one SceneManager, for every MTL file of at
\* most MaxMtlLines lines
\* ---------------------------------------------------------------------------
\* the lines of an MTL file: a material, and numeric values of Ns, d, Tr and
\* illum inside and outside their documented ranges
MtlLines ==
  {NewmtlLine("m"), IllumLine(3), IllumLine(7)}
    \cup {ValueLine("Ns", v) : v \in {F(-500), F(500)}}
    \cup {ValueLine(cmd, v) : cmd \in {"d", "Tr"}, v \in {Q(1, 2), F(2)}}
    \cup {ValueLine("d", F(-1))}
MtlFiles == UNION {[1..n -> MtlLines] : n \in 1..MaxMtlLines}

MtlInit ==
  /\ RayIdle /\ ManagerConstructed /\ LoopEntry
  /\ SceneConstructed
  /\ objFile = TriangleFile
  /\ mtlFile \in MtlFiles

MtlNext == \E path \in {MtlPath} : CallLoadMTL(path)

MtlSpec == MtlInit /\ [][MtlNext]_vars

\* ---------------------------------------------------------------------------
\* C23: after parsing any sequence of MTL lines, with any numeric values of
\* Ns, d, Tr and illum, every material has its Roughness, Metallic and
\* Transmission between 0 and 1
\* ---------------------------------------------------------------------------
UnitRange(x) == FLe(F(0), x) /\ FLe(x, F(1))

C23_MaterialValuesInUnitRange ==
  \A k \in 1..Len(scene.m_SceneData.Materials) :
     /\ UnitRange(scene.m_SceneData.Materials[k].Roughness)
     /\ UnitRange(scene.m_SceneData.Materials[k].Metallic)
     /\ UnitRange(scene.m_SceneData.Materials[k].Transmission)

\* ---------------------------------------------------------------------------
\* state machine of one general quadric and one ray: the queries of Spec on
\* the surfaces of GeneralSurfaces
\* ---------------------------------------------------------------------------
GeneralInit ==
  /\ \E r \in GeneralRays :
       /\ surface = r[1]
       /\ rayOrigin = r[2]
       /\ rayDirection = r[3]
  /\ tMinArg = DefaultTMin /\ tMaxArg = DefaultTMax
  /\ pc = "ready"
  /\ result = NoHit
  /\ boxResult = NoBoxResult
  /\ containsResult = FALSE
  /\ typeName = NoTypeName
  /\ ManagerConstructed
  /\ LoopEntry
  /\ SceneIdle

GeneralSpec == GeneralInit /\ [][Next]_vars

\* ---------------------------------------------------------------------------
\* C24: the coefficients a, b, c that Intersect computes from the quadric,
\* the origin O and the direction D are the expansion of the quadric along
\* the ray: a*t^2 + b*t + c = Evaluate(O + t*D) for every t
\* ---------------------------------------------------------------------------
\* parameters of the ray at which the two sides are compared
Parameters == {F(-2), F(-1), F(0), Q(1, 2), F(1), F(3)}

AlongRay(t) == FSum(<<FProd(<<RayA, t, t>>), FMul(RayB, t), RayC>>)

C24_ExactExpansion ==
  Intersected =>
    \A t \in Parameters : FEq(AlongRay(t), Evaluate(surface.coeffs, PointAt(t)))

\* Intersect has run on a quadric with cross terms, along a direction and
\* from an origin with no zero component, and has hit it
C24_Witness ==
  /\ Intersected
  /\ surface \in GeneralSurfaces
  /\ \A k \in 1..3 : rayOrigin[k] # F(0) /\ rayDirection[k] # F(0)
  /\ ~FEq(RayA, F(0)) /\ ~FEq(RayB, F(0)) /\ ~FEq(RayC, F(0))
  /\ result.Hit

\* ---------------------------------------------------------------------------
\* C25: SolveQuadratic called with |A| >= 1e-6 and B^2 - 4AC >= 0 returns
\* true with finite t0 <= t1 that are the two real roots of
\* A*t^2 + B*t + C = 0, also when C = 0 or B = 0
\* ---------------------------------------------------------------------------
C25_SolveQuadraticRoots ==
  (/\ Intersected
   /\ FGe(FAbs(RayA), Epsilon)
   /\ FGe(Discriminant(surface.coeffs, rayOrigin, rayDirection), F(0)))
    => LET solved == SolveQuadratic(RayA, RayB, RayC)
       IN  /\ solved.ok
           /\ IsFin(solved.t0) /\ IsFin(solved.t1)
           /\ FLe(solved.t0, solved.t1)
           /\ {solved.t0, solved.t1} = RealRoots(RayA, RayB, RayC)

\* ---------------------------------------------------------------------------
\* C26: the q of SolveQuadratic adds two terms of the same sign, -b and
\* -sign(b)*sqrt(discriminant): |q| >= |b|/2, and q = 0 only when b = 0 and
\* c = 0
\* ---------------------------------------------------------------------------
C26_QAvoidsCancellation ==
  (/\ Intersected
   /\ FGe(FAbs(RayA), Epsilon)
   /\ FGe(Discriminant(surface.coeffs, rayOrigin, rayDirection), F(0)))
    => LET q == QuadraticQ(RayA, RayB, RayC)
       IN  /\ FGe(FAbs(q), FDiv(FAbs(RayB), F(2)))
           /\ FEq(q, F(0)) => (FEq(RayB, F(0)) /\ FEq(RayC, F(0)))

\* ---------------------------------------------------------------------------
\* C27: for a box with Min <= Max on every axis and a direction with three
\* nonzero components, BoundingBox::Intersect returns true exactly when some
\* t >= 0 has origin + t * direction inside the box (Contains), and then the
\* returned [tMin, tMax] is exactly the set of parameters whose point is
\* inside the box.
\* ---------------------------------------------------------------------------
\* the parameters at which the ray crosses the six face planes
Crossings ==
  {SlabT1(surface.bbox, rayOrigin, rayDirection, k) : k \in 1..3}
    \cup {SlabT2(surface.bbox, rayOrigin, rayDirection, k) : k \in 1..3}
\* the set of parameters inside the box is a closed interval that ends at
\* crossings: the crossings, the points half way between two of them and
\* the points beside them decide it
Probes ==
  Crossings \cup {F(0)}
    \cup {FDiv(FAdd(s, t), F(2)) : s \in Crossings, t \in Crossings}
    \cup {FAdd(s, F(1)) : s \in Crossings}
    \cup {FSub(s, F(1)) : s \in Crossings}
OrderedBox ==
  \A k \in 1..3 : FLe(surface.bbox.Min[k], surface.bbox.Max[k])
SlantedRay == \A k \in 1..3 : rayDirection[k] # F(0)
InsideAt(t) == Contains(surface.bbox, PointAt(t))
C27_BoxIntersectIsContains ==
  (pc = "boxed" /\ OrderedBox /\ SlantedRay)
    => /\ boxResult.hit = (\E t \in Probes : FGe(t, F(0)) /\ InsideAt(t))
       /\ boxResult.hit
            => \A t \in Probes :
                 InsideAt(t) = (FGe(t, boxResult.tMin) /\ FLe(t, boxResult.tMax))
\* the origin is inside the box: tMin < 0 < tMax
C27_Witness ==
  /\ pc = "boxed" /\ OrderedBox /\ SlantedRay
  /\ boxResult.hit
  /\ FLt(boxResult.tMin, F(0)) /\ FGt(boxResult.tMax, F(0))
  /\ surface = SlabSphere

\* ---------------------------------------------------------------------------
\* state machine of the classification: GetQuadricTypeName applied to one
\* coefficient set
\* ---------------------------------------------------------------------------
\* values on both sides of the 1e-6 threshold, and on it
TypeValues ==
  {F(-1), FNeg(Epsilon), FNeg(FlatCoefficient), F(0), FlatCoefficient,
   Epsilon, F(1)}
\* tan(angle) of the cones: 0, 2^-10 (its square is below 1e-6), 1 and 2
ConeTangents == {F(0), Q(1, 1024), F(1), F(2)}
ConeSurfaces == {CreateCone(tanAngle, F(2)) : tanAngle \in ConeTangents}
TypeSurfaces ==
  {SurfaceOf([ZeroCoefficients EXCEPT !.A = a, !.B = b, !.C = c, !.E = e,
                                      !.H = h]) :
     a \in TypeValues, b \in TypeValues, c \in TypeValues,
     e \in {F(0), F(1)}, h \in {F(0), F(1)}}
    \cup ConeSurfaces

TypeInit ==
  /\ surface \in TypeSurfaces
  /\ rayOrigin = Vec(0, 0, 0)
  /\ rayDirection = Vec(0, 0, 1)
  /\ tMinArg = DefaultTMin /\ tMaxArg = DefaultTMax
  /\ pc = "ready"
  /\ result = NoHit
  /\ boxResult = NoBoxResult
  /\ containsResult = FALSE
  /\ typeName = NoTypeName
  /\ ManagerConstructed
  /\ LoopEntry
  /\ SceneIdle

\* typeName = GetQuadricTypeName(surface.GetCoefficients())
CallGetQuadricTypeName ==
  /\ pc = "ready"
  /\ typeName' = GetQuadricTypeName(surface.coeffs)
  /\ pc' = "named"
  /\ UNCHANGED <<surface, rayOrigin, rayDirection, tMinArg, tMaxArg, result,
                 boxResult, containsResult>>
  /\ UNCHANGED <<mgrVars, mainVars, sceneVars>>

TypeNext == CallGetQuadricTypeName

TypeSpec == TypeInit /\ [][TypeNext]_vars

\* ---------------------------------------------------------------------------
\* C28: GetQuadricTypeName never returns "Cone": every coefficient set with
\* A, B and C all above the 1e-6 threshold in magnitude and no cross term is
\* labelled Ellipsoid, Hyperboloid or General Quadric before the cone test
\* is reached, so the coefficients built by CreateCone (A = 1, B = 1, C < 0)
\* are labelled Hyperboloid.
\* ---------------------------------------------------------------------------
Named == pc = "named"
Above(x) == FGt(FAbs(x), Epsilon)
NoCrossTerm ==
  ~Above(surface.coeffs.D) /\ ~Above(surface.coeffs.E) /\ ~Above(surface.coeffs.F)
NeverCone ==
  /\ typeName # "Cone"
  /\ (/\ Above(surface.coeffs.A) /\ Above(surface.coeffs.B)
      /\ Above(surface.coeffs.C) /\ NoCrossTerm)
       => typeName \in {"Ellipsoid", "Hyperboloid", "General Quadric"}
C28_NeverCone ==
  Named
    => /\ NeverCone
       /\ (surface \in ConeSurfaces /\ FLt(surface.coeffs.C, F(0)))
            => typeName = "Hyperboloid"

\* C28 amended: the label of a cone is Hyperboloid when C = -tan(angle)^2 is
\* below -1e-6, and Cylinder when -1e-6 <= C < 0.
C28_NeverCone_Amended ==
  Named
    => /\ NeverCone
       /\ (/\ surface \in ConeSurfaces /\ FLt(surface.coeffs.C, F(0))
           /\ Above(surface.coeffs.C))
            => typeName = "Hyperboloid"
       /\ (/\ surface \in ConeSurfaces /\ FLt(surface.coeffs.C, F(0))
           /\ ~Above(surface.coeffs.C))
            => typeName = "Cylinder"
C28_Witness ==
  /\ Named
  /\ surface = CreateCone(F(1), F(2))
  /\ typeName = "Hyperboloid"

\* ---------------------------------------------------------------------------
\* C29: in every frame of the main loop the accumulation source and
\* destination buffer indices are different members of {0, 1}; for two
\* consecutive frames with no accumulation reset between them the source
\* buffer of the later frame is the destination buffer of the earlier frame;
\* the displayed buffer is always the one just written.
\* ---------------------------------------------------------------------------
FrameRan == frames' = frames + 1
\* the later of two frames, entered without the reset of s_FrameIndex
ContinuedFrame == FrameRan /\ frames >= 1 /\ uFrame' # 0
PingPong ==
  /\ srcAccum' \in {0, 1} /\ dstAccum' \in {0, 1}
  /\ srcAccum' # dstAccum'
  /\ displayed' = dstAccum'
C29_PingPongBuffers ==
  [][(FrameRan => PingPong) /\ (ContinuedFrame => srcAccum' = dstAccum)]_vars
\* a second frame in a row without reset: it reads buffer 1 and writes 0
C29_Witness ==
  /\ frames >= 2 /\ uFrame = 1
  /\ srcAccum = 1 /\ dstAccum = 0 /\ displayed = 0

\* ---------------------------------------------------------------------------
\* state machine of one SceneManager and its textures: LoadOBJ, UploadToGPU,
\* Clear and BindTextures in any order
\* ---------------------------------------------------------------------------
\* SceneManager::BindTextures(shaderProgram)
CallBindTextures ==
  /\ ~loading.active
  /\ uniforms' = BindTextures(scene, textureRows, uniforms)
  /\ UNCHANGED <<scene, loading, sceneCall, sceneCalls, textureRows>>
  /\ UNCHANGED <<rayVars, mgrVars, mainVars, objFile, mtlFile>>

GpuNext ==
  \/ BeginLoadOBJ(ObjPath)
  \/ ParseNextLine
  \/ FinishLoadOBJ
  \/ CallUploadToGPU
  \/ CallClear
  \/ CallBindTextures

GpuSpec == SceneInit /\ [][GpuNext]_vars

\* ---------------------------------------------------------------------------
\* C30: whenever BindTextures binds textures (m_GPUDataValid true), the
\* uNumTriangles value it passes equals the number of triangle rows of the
\* textures last created by UploadToGPU, after any sequence of LoadOBJ,
\* UploadToGPU and Clear calls.
\* ---------------------------------------------------------------------------
C30_BoundCountMatchesRows ==
  uniforms.bound => uniforms.uNumTriangles = uniforms.rows

====
